---- MODULE Spec2Model ----
(***************************************************************************)
(* Model of the agent backend of the weather chat application:             *)
(*   agent.py  - _build_messages, run_agent, run_agent_stream              *)
(*   tools.py  - execute_get_current_weather                               *)
(* One request is run through both orchestration modes (collecting and     *)
(* progressive) against the same model-capability and weather-capability   *)
(* answers, so that the two modes can be compared run by run.              *)
(*                                                                         *)
(* Text that the code strips or tests for emptiness (message content) is   *)
(* a sequence of segments: a segment is either one whitespace character or *)
(* a chunk of visible characters.  Text that the code only passes on,      *)
(* compares or interpolates (locations, JSON payloads, fixed messages) is  *)
(* a TLA+ string.                                                          *)
(***************************************************************************)
EXTENDS Integers, Sequences, FiniteSets, TLC

VARIABLES
    history,    \* the caller's history: sequence of [role, content]
    message,    \* the caller's new message
    chosen,     \* which external answers have been fixed for this request
    env,        \* the external answers: round 1, weather HTTP call, round 2
    pc,         \* per mode: the suspension point the run is at
    messages,   \* per mode: the run's own message list
    choice,     \* per mode: response.choices[0] of round 1
    location,   \* per mode: the parsed location
    result,     \* per mode: what execute_get_current_weather gave
    calls,      \* per mode: the external calls made so far, in order
    outcome,    \* per mode: how the run ended (return value or exception)
    events,     \* the events yielded by run_agent_stream, in order
    trace,      \* per mode: its yields and its external calls and their
                \* returns, in program order
    chat_client,\* agent_server._chat_client: "none" or the client handle
    request,    \* the HTTP request the agent server is handling
    response,   \* the HTTP response it gave
    lifespan,   \* agent_server.lifespan: its phase and what it did to the client
    mcp,        \* the normalization server handling one GET /weather
    launcher,   \* main.py: the launcher's position, subprocesses and log files
    ui          \* frontend/app.py: the session's messages and its exchanges

srv == <<chat_client, request, response>>
aux == <<lifespan, mcp, launcher, ui>>

vars == <<history, message, chosen, env, pc, messages, choice, location,
          result, calls, outcome, events, trace, srv, aux>>

----------------------------------------------------------------------------
(* Bounds *)

MaxHist == 1        \* longest history
MaxSegs == 2        \* longest message content, in segments
MaxToolCalls == 2   \* longest tool-call list of a round-1 response
MaxBuildHist == 3   \* longest history given to _build_messages alone
MaxRuns == 2        \* concurrent orchestration runs
MaxRequests == 2    \* requests answered in the life of the server process
MaxExchanges == 2  \* most prompts of one UI session
MaxLines == 2      \* most lines of one streamed response

Modes == {"collect", "stream"}

----------------------------------------------------------------------------
(* Text *)

Segs == {" ", "Sunny"}

IsSpace(c) == c \in {" ", "\t", "\n"}

SeqsUpTo(S, n) == UNION {[1..k -> S] : k \in 0..n}

Texts == SeqsUpTo(Segs, MaxSegs)

RECURSIVE lstrip(_)
lstrip(s) ==
    IF s = <<>> THEN <<>>
    ELSE IF IsSpace(Head(s)) THEN lstrip(Tail(s)) ELSE s

RECURSIVE rstrip(_)
rstrip(s) ==
    IF s = <<>> THEN <<>>
    ELSE IF IsSpace(s[Len(s)]) THEN rstrip(SubSeq(s, 1, Len(s) - 1)) ELSE s

\* str.strip(): leading and trailing whitespace removed
strip(s) == rstrip(lstrip(s))

\* an Optional[str]: None or a text
None == [none |-> TRUE, text |-> <<>>]
Str(t) == [none |-> FALSE, text |-> t]
Contents == {None} \cup {Str(t) : t \in Texts}

\* Python truthiness of an Optional[str]: `not x`
Falsy(c) == c.none \/ c.text = <<>>

----------------------------------------------------------------------------
(* JSON values, json.loads and json.dumps on the payloads of the model *)

JScalar(t, s) == [t |-> t, s |-> s]
JStr(s) == JScalar("str", s)
JInt(s) == JScalar("int", s)
JNull == JScalar("null", "")

Field(k, v) == [k |-> k, v |-> v]

\* a parsed document: ok = FALSE stands for json.JSONDecodeError
JDoc(t, s, fields) == [ok |-> TRUE, t |-> t, s |-> s, fields |-> fields]
JDict(fields) == JDoc("dict", "", fields)
JDecodeError == [ok |-> FALSE, t |-> "", s |-> "", fields |-> {}]

HasKey(d, k) == \E f \in d.fields : f.k = k
GetKey(d, k) == (CHOOSE f \in d.fields : f.k = k).v

ARGS_AUSTIN == "{\"location\": \"Austin\"}"
ARGS_ATLANTIS == "{\"location\": \"Atlantis\"}"
ARGS_EMPTY_LOC == "{\"location\": \"\"}"
ARGS_INT_LOC == "{\"location\": 5}"
ARGS_NULL_LOC == "{\"location\": null}"
ARGS_WRONG_KEY == "{\"city\": \"Austin\"}"
ARGS_LIST == "[\"Austin\"]"
ARGS_STRING == "\"Austin\""
ARGS_NULL == "null"
ARGS_BAD_JSON == "not-valid-json{"
ARGS_BLANK == ""

ValidArgs == {ARGS_AUSTIN, ARGS_ATLANTIS}
ArgPayloads ==
    ValidArgs \cup
    {ARGS_EMPTY_LOC, ARGS_INT_LOC, ARGS_NULL_LOC, ARGS_WRONG_KEY, ARGS_LIST,
     ARGS_STRING, ARGS_NULL, ARGS_BAD_JSON, ARGS_BLANK}

BODY_WEATHER ==
    "{\"location\": \"Austin\", \"temperature\": 72, \"feels_like\": 70, \"humidity\": 45, \"wind_speed\": 10, \"wind_direction\": \"S\", \"weather_description\": \"Sunny\", \"uv_index\": 6, \"visibility\": 10, \"cloud_cover\": 5}"
BODY_NOT_FOUND == "{\"error\": \"Location not found.\"}"
BODY_UPSTREAM == "{\"error\": \"External weather service returned an error.\"}"
BODY_NO_ERROR_KEY == "{\"detail\": \"Not Found\"}"
BODY_INT_ERROR == "{\"error\": 502}"
BODY_LIST == "[]"
BODY_PLAIN == "Internal Server Error"

Bodies ==
    {BODY_WEATHER, BODY_NOT_FOUND, BODY_UPSTREAM, BODY_NO_ERROR_KEY,
     BODY_INT_ERROR, BODY_LIST, BODY_PLAIN}

\* json.loads on each payload of the model
json_loads(text) ==
    CASE text = ARGS_AUSTIN -> JDict({Field("location", JStr("Austin"))})
      [] text = ARGS_ATLANTIS -> JDict({Field("location", JStr("Atlantis"))})
      [] text = ARGS_EMPTY_LOC -> JDict({Field("location", JStr(""))})
      [] text = ARGS_INT_LOC -> JDict({Field("location", JInt("5"))})
      [] text = ARGS_NULL_LOC -> JDict({Field("location", JNull)})
      [] text = ARGS_WRONG_KEY -> JDict({Field("city", JStr("Austin"))})
      [] text = ARGS_LIST -> JDoc("list", "", {})
      [] text = ARGS_STRING -> JDoc("str", "Austin", {})
      [] text = ARGS_NULL -> JDoc("null", "", {})
      [] text = BODY_WEATHER ->
            JDict({Field("location", JStr("Austin")),
                   Field("temperature", JInt("72")),
                   Field("feels_like", JInt("70")),
                   Field("humidity", JInt("45")),
                   Field("wind_speed", JInt("10")),
                   Field("wind_direction", JStr("S")),
                   Field("weather_description", JStr("Sunny")),
                   Field("uv_index", JInt("6")),
                   Field("visibility", JInt("10")),
                   Field("cloud_cover", JInt("5"))})
      [] text = BODY_NOT_FOUND ->
            JDict({Field("error", JStr("Location not found."))})
      [] text = BODY_UPSTREAM ->
            JDict({Field("error", JStr("External weather service returned an error."))})
      [] text = BODY_NO_ERROR_KEY -> JDict({Field("detail", JStr("Not Found"))})
      [] text = BODY_INT_ERROR -> JDict({Field("error", JInt("502"))})
      [] text = BODY_LIST -> JDoc("list", "", {})
      [] OTHER -> JDecodeError

\* json.dumps of a scalar
json_dumps_scalar(v) ==
    CASE v.t = "str" -> "\"" \o v.s \o "\""
      [] v.t = "null" -> "null"
      [] OTHER -> v.s

\* json.dumps({"error": v})
json_dumps_error(v) == "{\"error\": " \o json_dumps_scalar(v) \o "}"

(* JSON text as the sequence of its lexical tokens: what a serializer     *)
(* writes and a parser reads, for the bodies that are built and parsed on  *)
(* the way from the normalization server to round 2.  A scalar token is a  *)
(* JScalar; text that is no JSON at all is one "raw" token.                *)

Punct(c) == JScalar("punct", c)
Raw(text) == <<JScalar("raw", text)>>
IsScalarToken(tk) == tk.t \in {"str", "int", "null"}

\* the members of an object: "k": v, "k": v, ...
RECURSIVE MemberTokens(_)
MemberTokens(fields) ==
    IF fields = <<>> THEN <<>>
    ELSE <<JStr(Head(fields).k), Punct(":"), Head(fields).v>>
            \o (IF Tail(fields) = <<>> THEN <<>> ELSE <<Punct(",")>>)
            \o MemberTokens(Tail(fields))

\* serialization of an object given as the sequence of its fields
json_dumps_object(fields) == <<Punct("{")>> \o MemberTokens(fields) \o <<Punct("}")>>

\* json.dumps({"error": v}) in tokens
json_dumps_error_tokens(v) == json_dumps_object(<<Field("error", v)>>)

\* parsing of the members of an object into acc; a later member replaces an
\* earlier one of the same key; ok = FALSE when the tokens are no member list
RECURSIVE ParseMembers(_, _)
ParseMembers(ts, acc) ==
    IF Len(ts) < 3 \/ ts[1].t # "str" \/ ts[2] # Punct(":") \/ ~IsScalarToken(ts[3])
    THEN [ok |-> FALSE, fields |-> {}]
    ELSE LET kept == {f \in acc : f.k # ts[1].s} \cup {Field(ts[1].s, ts[3])} IN
         IF Len(ts) = 3 THEN [ok |-> TRUE, fields |-> kept]
         ELSE IF ts[4] # Punct(",") THEN [ok |-> FALSE, fields |-> {}]
         ELSE ParseMembers(SubSeq(ts, 5, Len(ts)), kept)

\* json.loads / response.json() on a token sequence
json_loads_tokens(ts) ==
    IF ts = <<>> THEN JDecodeError
    ELSE IF Len(ts) = 1 THEN
        (IF IsScalarToken(ts[1]) THEN JDoc(ts[1].t, ts[1].s, {}) ELSE JDecodeError)
    ELSE IF ts[1] = Punct("[") /\ ts[Len(ts)] = Punct("]") /\ Len(ts) = 2
        THEN JDoc("list", "", {})
    ELSE IF ts[1] = Punct("{") /\ ts[Len(ts)] = Punct("}") THEN
        (IF Len(ts) = 2 THEN JDict({})
         ELSE LET m == ParseMembers(SubSeq(ts, 2, Len(ts) - 1), {}) IN
              IF m.ok THEN JDict(m.fields) ELSE JDecodeError)
    ELSE JDecodeError

----------------------------------------------------------------------------
(* The caller's inputs *)

SYSTEM_PROMPT == <<"You are a weather assistant.">>

Roles == {"user", "assistant", "system"}
HistoryTurns == [role : Roles, content : {<<"Hi">>}]
Histories == SeqsUpTo(HistoryTurns, MaxHist)
UserMessages == {<<"Weather", " ", "in", " ", "Austin?">>}

(* The model capability's answers *)

NoToolCalls == [none |-> TRUE, list |-> <<>>]
ToolCallList(l) == [none |-> FALSE, list |-> l]
ToolCall(i, args) == [id |-> "call_" \o ToString(i), arguments |-> args]

\* the payloads of the calls after the first of a tool-call list
LaterArgs == {ARGS_ATLANTIS, ARGS_BAD_JSON}

ToolCallLists ==
    {NoToolCalls} \cup
    {ToolCallList([i \in 1..n |-> ToolCall(i, IF i = 1 THEN first ELSE rest[i])]) :
        <<n, first, rest>> \in
            {<<n, first, rest>> \in
                (0..MaxToolCalls) \X ArgPayloads \X [1..MaxToolCalls -> LaterArgs] :
                    /\ n = 0 => first = ARGS_AUSTIN
                    /\ \A i \in 1..MaxToolCalls :
                          (i = 1 \/ i > n) => rest[i] = ARGS_ATLANTIS}}

Response(fr, content, tcs) ==
    [raised |-> FALSE, finish_reason |-> fr, content |-> content, tool_calls |-> tcs]
\* chat.completions.create raised
LLMRaised ==
    [raised |-> TRUE, finish_reason |-> "", content |-> None, tool_calls |-> NoToolCalls]

Round1Answers ==
    {LLMRaised}
    \cup {Response("stop", c, NoToolCalls) : c \in Contents}
    \cup {Response("length", Str(<<"Sunny">>), NoToolCalls),
          Response("stop", None, ToolCallList(<<ToolCall(1, ARGS_AUSTIN)>>)),
          Response("tool_calls", Str(<<"Sunny">>),
                   ToolCallList(<<ToolCall(1, ARGS_AUSTIN)>>))}
    \cup {Response("tool_calls", None, tcs) : tcs \in ToolCallLists}

Round2Answers ==
    {LLMRaised} \cup {Response("stop", c, NoToolCalls) : c \in Contents}

(* The weather capability's answers to the HTTP GET *)

HttpResponse(status, body) == [kind |-> "response", status |-> status, body |-> body]
HttpTimeout == [kind |-> "timeout", status |-> 0, body |-> ""]
HttpConnectError == [kind |-> "connect_error", status |-> 0, body |-> ""]

HttpAnswers ==
    {HttpTimeout, HttpConnectError,
     HttpResponse(200, BODY_WEATHER),
     HttpResponse(404, BODY_NOT_FOUND), HttpResponse(404, BODY_PLAIN)}
    \cup {HttpResponse(st, b) : st \in {400, 500, 502}, b \in Bodies \ {BODY_WEATHER}}

NoAnswer == [r1 |-> LLMRaised, wx |-> HttpTimeout, r2 |-> LLMRaised]

----------------------------------------------------------------------------
(* agent.py: _build_messages *)

Msg(role, content) ==
    [role |-> role, content |-> content, tool_calls |-> NoToolCalls, tool_call_id |-> ""]

\* the loop without its `continue` on a system role
KeepAllTurns(h) == [i \in 1..Len(h) |-> Msg(h[i].role, Str(h[i].content))]

RECURSIVE KeepNonSystem(_)
KeepNonSystem(h) ==
    IF h = <<>> THEN <<>>
    ELSE IF Head(h).role = "system" THEN KeepNonSystem(Tail(h))
    ELSE <<Msg(Head(h).role, Str(Head(h).content))>> \o KeepNonSystem(Tail(h))

\* the new user message put before the history instead of after it
build_messages_message_first(h, m) ==
    <<Msg("system", Str(SYSTEM_PROMPT)), Msg("user", Str(m))>> \o KeepNonSystem(h)

build_messages(h, m) ==
    <<Msg("system", Str(SYSTEM_PROMPT))>> \o KeepNonSystem(h) \o <<Msg("user", Str(m))>>

----------------------------------------------------------------------------
(* How a run ends *)

NotDone == [kind |-> "none", reply |-> <<>>, tool_used |-> FALSE, exc |-> ""]
Return(reply, tu) == [kind |-> "return", reply |-> reply, tool_used |-> tu, exc |-> ""]
Raise(exc) == [kind |-> "raise", reply |-> <<>>, tool_used |-> FALSE, exc |-> exc]

\* AgentError("model unavailable") and AgentError("LLM returned empty content")
MODEL_UNAVAILABLE == "AgentError: model unavailable"
EMPTY_CONTENT == "AgentError: LLM returned empty content"
AgentErrors == {MODEL_UNAVAILABLE, EMPTY_CONTENT}

REPHRASE == <<"I encountered an issue. Could you rephrase it?">>

(* tools.py: execute_get_current_weather. exc = "" is a normal return of text *)

ToolText(text) == [exc |-> "", text |-> text]
ToolRaise(exc) == [exc |-> exc, text |-> ""]

\* the function over the representation of JSON text: loads parses a body,
\* dumps_error serializes {"error": v}
execute_get_current_weather_of(loads(_), dumps_error(_), loc, http) ==
    CASE http.kind = "timeout" ->
            ToolText(dumps_error(JStr("Weather service timed out.")))
      [] http.kind = "connect_error" ->
            ToolText(dumps_error(JStr("Weather service is unreachable.")))
      [] http.status = 200 -> ToolText(http.body)
      [] http.status = 404 ->
            ToolText(dumps_error(JStr("Location '" \o loc \o "' was not found.")))
      [] OTHER ->
            LET body == loads(http.body) IN
            IF ~body.ok THEN ToolRaise("JSONDecodeError")
            ELSE IF body.t # "dict" THEN ToolRaise("AttributeError")
            ELSE ToolText(dumps_error(
                    IF HasKey(body, "error") THEN GetKey(body, "error")
                    ELSE JStr("Unknown error from weather service.")))

execute_get_current_weather(loc, http) ==
    execute_get_current_weather_of(json_loads, json_dumps_error, loc, http)

\* the same on bodies given as token sequences
execute_get_current_weather_tokens(loc, http) ==
    execute_get_current_weather_of(json_loads_tokens, json_dumps_error_tokens, loc, http)

(* agent.py: the parsing of the tool arguments (lines 81-92 and 167-179).  *)
(* exc = "" : location is valid; "malformed" : one of the caught           *)
(* exceptions; anything else escapes the try block.                        *)

Parsed(exc, loc) == [exc |-> exc, location |-> loc]

parse_tool_arguments(arguments) ==
    LET args == json_loads(arguments) IN
    IF ~args.ok THEN Parsed("malformed", "")                    \* JSONDecodeError
    ELSE IF args.t # "dict" THEN Parsed("TypeError", "")        \* args["location"]
    ELSE IF ~HasKey(args, "location") THEN Parsed("malformed", "")    \* KeyError
    ELSE LET loc == GetKey(args, "location") IN
         IF loc.t # "str" \/ loc.s = "" THEN Parsed("malformed", "")  \* ValueError
         ELSE Parsed("", loc.s)

\* choice.message.tool_calls[0]: "" when there is a first element
first_tool_call_error(tcs) ==
    IF tcs.none THEN "TypeError"
    ELSE IF tcs.list = <<>> THEN "IndexError"
    ELSE ""

----------------------------------------------------------------------------
(* External calls and stream events *)

LLMCall(msgs, tools) ==
    [target |-> "llm", messages |-> msgs, tools |-> tools, location |-> ""]
WeatherCall(loc) ==
    [target |-> "weather", messages |-> <<>>, tools |-> FALSE, location |-> loc]

Status(msg) == [type |-> "status", message |-> msg, reply |-> <<>>, tool_used |-> FALSE]
ErrorEvent(msg) == [type |-> "error", message |-> msg, reply |-> <<>>, tool_used |-> FALSE]
ResultEvent(reply, tu) == [type |-> "result", message |-> "", reply |-> reply, tool_used |-> tu]

MSG_ANALYZING == "Analyzing your question..."
MSG_GENERATING == "Generating response..."
MSG_UNAVAILABLE == "The weather service is currently unavailable. Please try again."
MSG_PARSING == "I encountered an issue parsing the request. Could you rephrase it?"
MSG_EMPTY == "The model returned an empty response. Please try again."
MsgFetching(loc) == "Fetching weather data for " \o loc \o "..."

\* the generator ran to its end (after its last yield, or at a `return`)
GeneratorEnd == [kind |-> "stop", reply |-> <<>>, tool_used |-> FALSE, exc |-> ""]

\* choice.message, appended to the message list as it came
AssistantMsg(ch) ==
    [role |-> "assistant", content |-> ch.content, tool_calls |-> ch.tool_calls,
     tool_call_id |-> ""]
\* the tool-result turn without the id of the call it answers
ToolMsg_untagged(text, id) ==
    [role |-> "tool", content |-> Str(<<text>>), tool_calls |-> NoToolCalls,
     tool_call_id |-> ""]

\* {"role": "tool", "content": result, "tool_call_id": tool_call.id}
ToolMsg(text, id) ==
    [role |-> "tool", content |-> Str(<<text>>), tool_calls |-> NoToolCalls,
     tool_call_id |-> id]

\* entries of a run's trace
YieldEntry(e) == [kind |-> "yield", what |-> e.type, message |-> e.message]
CallEntry(c) == [kind |-> "call", what |-> c.target, message |-> ""]
ReturnEntry(target) == [kind |-> "return", what |-> target, message |-> ""]
RaiseEntry(target) == [kind |-> "raise", what |-> target, message |-> ""]
Yields(es) == [i \in 1..Len(es) |-> YieldEntry(es[i])]

\* one step of a run: the events it yields, where it suspends next, how it
\* ended if it did, and the location it parsed
Step(yields, next, out, loc) ==
    [yields |-> yields, next |-> next, outcome |-> out, location |-> loc]

----------------------------------------------------------------------------
(* agent.py: run_agent, from the answer of round 1 to the next suspension *)

\* the reply returned as the model gave it, without .strip()
run_agent_reply_unstripped(reply_content, tool_used) ==
    IF Falsy(reply_content) THEN Raise(EMPTY_CONTENT)
    ELSE Return(reply_content.text, tool_used)

\* lines 119-128
run_agent_reply(reply_content, tool_used) ==
    IF Falsy(reply_content) THEN Raise(EMPTY_CONTENT)
    ELSE Return(strip(reply_content.text), tool_used)

\* a rejected payload falling through to round 2 instead of returning
run_agent_round1_fallthrough(r) ==
    IF r.raised THEN Step(<<>>, "done", Raise(MODEL_UNAVAILABLE), "")
    ELSE IF r.finish_reason = "tool_calls" THEN
        IF first_tool_call_error(r.tool_calls) # ""
        THEN Step(<<>>, "done", Raise(first_tool_call_error(r.tool_calls)), "")
        ELSE LET p == parse_tool_arguments(r.tool_calls.list[1].arguments) IN
             CASE p.exc = "malformed" -> Step(<<>>, "round2", NotDone, "")
               [] p.exc = "" -> Step(<<>>, "weather", NotDone, p.location)
               [] OTHER -> Step(<<>>, "done", Raise(p.exc), "")
    ELSE Step(<<>>, "done", run_agent_reply(r.content, FALSE), "")

\* the payload of the last tool call parsed instead of the first
run_agent_round1_last_call(r) ==
    IF r.raised THEN Step(<<>>, "done", Raise(MODEL_UNAVAILABLE), "")
    ELSE IF r.finish_reason = "tool_calls" THEN
        IF first_tool_call_error(r.tool_calls) # ""
        THEN Step(<<>>, "done", Raise(first_tool_call_error(r.tool_calls)), "")
        ELSE LET p == parse_tool_arguments(
                    r.tool_calls.list[Len(r.tool_calls.list)].arguments) IN
             CASE p.exc = "malformed" -> Step(<<>>, "done", Return(REPHRASE, FALSE), "")
               [] p.exc = "" -> Step(<<>>, "weather", NotDone, p.location)
               [] OTHER -> Step(<<>>, "done", Raise(p.exc), "")
    ELSE Step(<<>>, "done", run_agent_reply(r.content, FALSE), "")

\* lines 64-96 and 115-117
run_agent_round1(r) ==
    IF r.raised THEN Step(<<>>, "done", Raise(MODEL_UNAVAILABLE), "")
    ELSE IF r.finish_reason = "tool_calls" THEN
        IF first_tool_call_error(r.tool_calls) # ""
        THEN Step(<<>>, "done", Raise(first_tool_call_error(r.tool_calls)), "")
        ELSE LET p == parse_tool_arguments(r.tool_calls.list[1].arguments) IN
             CASE p.exc = "malformed" -> Step(<<>>, "done", Return(REPHRASE, FALSE), "")
               [] p.exc = "" -> Step(<<>>, "weather", NotDone, p.location)
               [] OTHER -> Step(<<>>, "done", Raise(p.exc), "")
    ELSE Step(<<>>, "done", run_agent_reply(r.content, FALSE), "")

\* a round-2 failure downgraded to the rephrase reply
run_agent_round2_downgrade(r) ==
    IF r.raised THEN Step(<<>>, "done", Return(REPHRASE, FALSE), "")
    ELSE Step(<<>>, "done", run_agent_reply(r.content, TRUE), "")

\* round 2 without line 114 (tool_used = True)
run_agent_round2_flag_unset(r) ==
    IF r.raised THEN Step(<<>>, "done", Raise(MODEL_UNAVAILABLE), "")
    ELSE Step(<<>>, "done", run_agent_reply(r.content, FALSE), "")

\* lines 103-114 and 119-128
run_agent_round2(r) ==
    IF r.raised THEN Step(<<>>, "done", Raise(MODEL_UNAVAILABLE), "")
    ELSE Step(<<>>, "done", run_agent_reply(r.content, TRUE), "")

(* agent.py: run_agent_stream *)

\* the empty-content branch without its `return`: the result is yielded too
run_agent_stream_reply_no_return(reply_content, tool_used) ==
    IF Falsy(reply_content)
    THEN Step(<<ErrorEvent(MSG_EMPTY), ResultEvent(<<>>, tool_used)>>, "done",
              GeneratorEnd, "")
    ELSE Step(<<ResultEvent(strip(reply_content.text), tool_used)>>, "done",
              GeneratorEnd, "")

\* lines 205-212 and 215-222
run_agent_stream_reply(reply_content, tool_used) ==
    IF Falsy(reply_content) THEN Step(<<ErrorEvent(MSG_EMPTY)>>, "done", GeneratorEnd, "")
    ELSE Step(<<ResultEvent(strip(reply_content.text), tool_used)>>, "done",
              GeneratorEnd, "")

\* round 1 without the status event of line 181
run_agent_stream_round1_silent(r) ==
    IF r.raised THEN Step(<<ErrorEvent(MSG_UNAVAILABLE)>>, "done", GeneratorEnd, "")
    ELSE IF r.finish_reason = "tool_calls" THEN
        IF first_tool_call_error(r.tool_calls) # ""
        THEN Step(<<>>, "done", Raise(first_tool_call_error(r.tool_calls)), "")
        ELSE LET p == parse_tool_arguments(r.tool_calls.list[1].arguments) IN
             CASE p.exc = "malformed" ->
                    Step(<<ErrorEvent(MSG_PARSING)>>, "done", GeneratorEnd, "")
               [] p.exc = "" -> Step(<<>>, "weather", NotDone, p.location)
               [] OTHER -> Step(<<>>, "done", Raise(p.exc), "")
    ELSE run_agent_stream_reply(r.content, FALSE)

\* lines 149-185 and 213-222
run_agent_stream_round1(r) ==
    IF r.raised THEN Step(<<ErrorEvent(MSG_UNAVAILABLE)>>, "done", GeneratorEnd, "")
    ELSE IF r.finish_reason = "tool_calls" THEN
        IF first_tool_call_error(r.tool_calls) # ""
        THEN Step(<<>>, "done", Raise(first_tool_call_error(r.tool_calls)), "")
        ELSE LET p == parse_tool_arguments(r.tool_calls.list[1].arguments) IN
             CASE p.exc = "malformed" ->
                    Step(<<ErrorEvent(MSG_PARSING)>>, "done", GeneratorEnd, "")
               [] p.exc = "" ->
                    Step(<<Status(MsgFetching(p.location))>>, "weather", NotDone,
                         p.location)
               [] OTHER -> Step(<<>>, "done", Raise(p.exc), "")
    ELSE run_agent_stream_reply(r.content, FALSE)

\* round 2 of the stream reporting that no tool was used
run_agent_stream_round2_flag_unset(r) ==
    IF r.raised THEN Step(<<ErrorEvent(MSG_UNAVAILABLE)>>, "done", GeneratorEnd, "")
    ELSE run_agent_stream_reply(r.content, FALSE)

\* lines 194-212
run_agent_stream_round2(r) ==
    IF r.raised THEN Step(<<ErrorEvent(MSG_UNAVAILABLE)>>, "done", GeneratorEnd, "")
    ELSE run_agent_stream_reply(r.content, TRUE)

----------------------------------------------------------------------------
(* agent_server.py: requests and responses *)

\* the routes of the FastAPI app
ROUTE_HEALTH == "GET /health"
ROUTE_CHAT == "POST /chat"
ROUTE_CHAT_STREAM == "POST /chat/stream"

\* a request body: `message` may be missing (None)
Request(route, msg, hist) == [route |-> route, message |-> msg, history |-> hist]
NoRequest == Request("", None, <<>>)

\* a response: status 0 stands for no response yet; events is the body of
\* an event stream
\* agent.py lines 19-20: the configuration, with its defaults
MODEL_DEPLOYMENT_NAME == ""
MCP_SERVER_URL == "http://localhost:8000"

\* AgentHealthResponse
HealthBody(status, model, mcp_url) ==
    [status |-> status, model |-> model, mcp_url |-> mcp_url]
NoHealthBody == HealthBody("", "", "")

Respond(status, kind, reply, tu, error) ==
    [status |-> status, kind |-> kind, reply |-> reply, tool_used |-> tu,
     error |-> error, events |-> <<>>, health |-> NoHealthBody]
NoResponse == Respond(0, "", <<>>, FALSE, "")
ErrorResponse(status, error) == Respond(status, "error", <<>>, FALSE, error)
\* ChatResponse(reply=..., tool_used=...)
ChatResponse(reply, tu) == Respond(200, "chat", reply, tu, "")
\* AgentHealthResponse(status="ok", model=..., mcp_url=...)
HealthResponse ==
    [Respond(200, "health", <<>>, FALSE, "") EXCEPT
        !.health = HealthBody("ok", MODEL_DEPLOYMENT_NAME, MCP_SERVER_URL)]
\* Starlette's answer for a path and method no route matches
NotFoundResponse == Respond(404, "detail", <<>>, FALSE, "Not Found")

RegisteredRoutes == {ROUTE_HEALTH, ROUTE_CHAT}

MSG_INVALID_BODY == "Invalid request body."
MSG_NO_CLIENT == "Chat service not available."
MSG_UNEXPECTED == "An unexpected error occurred."

\* health() reporting the state of the chat client
health_of_client(client) ==
    IF client = "none" THEN Respond(500, "error", <<>>, FALSE, "Chat service not available.")
    ELSE HealthResponse

\* lines 62-68: health() does not look at the chat client
health(client) == HealthResponse

\* models.py: ChatRequest with any role accepted (role: str)
ValidChatRequest_any_role(req) ==
    /\ ~req.message.none
    /\ Len(req.message.text) >= 1

\* models.py: ChatRequest without min_length on message
ValidChatRequest_any_message(req) ==
    /\ ~req.message.none
    /\ \A i \in 1..Len(req.history) : req.history[i].role \in {"user", "assistant"}

\* models.py: the body validates as ChatRequest
ValidChatRequest(req) ==
    /\ ~req.message.none
    /\ Len(req.message.text) >= 1
    /\ \A i \in 1..Len(req.history) : req.history[i].role \in {"user", "assistant"}

\* str(exc) of an AgentError
str_exc(exc) ==
    CASE exc = MODEL_UNAVAILABLE -> "model unavailable"
      [] exc = EMPTY_CONTENT -> "LLM returned empty content"
      [] OTHER -> exc

\* the last handler answering with the exception's own text
chat_result_leaking(out) ==
    CASE out.kind = "return" -> ChatResponse(out.reply, out.tool_used)
      [] OTHER -> ErrorResponse(500, str_exc(out.exc))

\* chat() going on to the orchestrator without looking at the client
chat_client_missing_unchecked(client) == FALSE

\* agent_server.py lines 79-84: `if _chat_client is None`
chat_client_missing(client) == client = "none"

\* agent_server.py lines 86-102: what chat() answers for run_agent's outcome
chat_result(out) ==
    CASE out.kind = "return" -> ChatResponse(out.reply, out.tool_used)
      [] out.kind = "raise" /\ out.exc \in AgentErrors ->
            ErrorResponse(500, str_exc(out.exc))
      [] OTHER -> ErrorResponse(500, MSG_UNEXPECTED)

\* the requests sent to the server
RequestMessages == {None, Str(<<>>)} \cup {Str(m) : m \in UserMessages}
Requests ==
    {Request(route, msg, hist) :
        route \in {ROUTE_HEALTH, ROUTE_CHAT, ROUTE_CHAT_STREAM},
        msg \in RequestMessages, hist \in Histories}

\* the histories given to _build_messages alone
BuildTurns == [role : Roles, content : {<<"Hi">>, <<"Bye">>}]
BuildHistories == SeqsUpTo(BuildTurns, MaxBuildHist)

----------------------------------------------------------------------------
(* The processes around the orchestrator, at rest *)

\* agent_server.lifespan before startup: how often the chat client was
\* created and closed, and how many requests were answered
LifespanBoot == [phase |-> "boot", created |-> 0, closed |-> 0, served |-> 0]

(* mcp_server.py: GET /weather of the normalization server *)

\* a query parameter: absent, or present with a text
Absent == [none |-> TRUE, s |-> ""]
Param(text) == [none |-> FALSE, s |-> text]
WeatherQuery(loc, units) == [location |-> loc, units |-> units]

\* UnitsEnum
UNITS == {"f", "m", "s"}

\* the parameters validate: location: str = Query(..., min_length=1),
\* units: UnitsEnum = Query(UnitsEnum.fahrenheit)
ValidWeatherQuery(q) ==
    /\ ~q.location.none
    /\ q.location.s # ""
    /\ q.units.none \/ q.units.s \in UNITS

\* the provider's JSON document, as far as get_weather reads it: `success`
\* (absent on a success), the `error` object, location.name, `current`
NoCode == [none |-> TRUE, n |-> 0]
Code(n) == [none |-> FALSE, n |-> n]
ErrorInfo(present, code, info) == [present |-> present, code |-> code, info |-> info]
NoErrorInfo == ErrorInfo(FALSE, NoCode, Absent)
Current(present, t, fl, h, ws, wd, descs, uv, vis, cc) ==
    [present |-> present, temperature |-> t, feelslike |-> fl, humidity |-> h,
     wind_speed |-> ws, wind_dir |-> wd, weather_descriptions |-> descs,
     uv_index |-> uv, visibility |-> vis, cloudcover |-> cc]
NoCurrent == Current(FALSE, 0, 0, 0, 0, "", <<>>, 0, 0, 0)
Data(success, error, name, current) ==
    [json |-> TRUE, success |-> success, error |-> error, name |-> name,
     current |-> current]
NotJson == [json |-> FALSE, success |-> "absent", error |-> NoErrorInfo,
            name |-> Absent, current |-> NoCurrent]

DATA_AUSTIN ==
    Data("absent", NoErrorInfo, Param("Austin"),
         Current(TRUE, 72, 70, 45, 10, "S", <<"Sunny", "Clear">>, 6, 10, 5))
DATA_OSLO ==
    Data("absent", NoErrorInfo, Param("Oslo"),
         Current(TRUE, 0 - 5, 0 - 11, 80, 22, "NNW", <<>>, 0, 3, 100))
DATA_BARE == Data("absent", NoErrorInfo, Absent, NoCurrent)
DATA_ERROR_601 ==
    Data("false", ErrorInfo(TRUE, Code(601), Param("Missing query.")), Absent, NoCurrent)
DATA_ERROR_615 ==
    Data("false", ErrorInfo(TRUE, Code(615), Param("Request failed.")), Absent, NoCurrent)
DATA_ERROR_101 ==
    Data("false", ErrorInfo(TRUE, Code(101), Param("Invalid access key.")), Absent,
         NoCurrent)
DATA_ERROR_BARE == Data("false", NoErrorInfo, Absent, NoCurrent)

\* the outcomes of the GET to the provider
UpResponse(status, data) == [kind |-> "response", status |-> status, data |-> data]
UpTimeout == [kind |-> "timeout", status |-> 0, data |-> NotJson]
UpConnectError == [kind |-> "connect_error", status |-> 0, data |-> NotJson]
NoUpstream == [kind |-> "none", status |-> 0, data |-> NotJson]
UpstreamAnswers ==
    {UpTimeout, UpConnectError, UpResponse(403, NotJson),
     UpResponse(500, DATA_ERROR_101), UpResponse(200, NotJson)}
    \cup {UpResponse(200, d) :
            d \in {DATA_AUSTIN, DATA_OSLO, DATA_BARE, DATA_ERROR_601,
                   DATA_ERROR_615, DATA_ERROR_101, DATA_ERROR_BARE}}

\* WeatherResponse
WeatherResponse(loc, t, fl, h, ws, wd, desc, uv, vis, cc) ==
    [location |-> loc, temperature |-> t, feels_like |-> fl, humidity |-> h,
     wind_speed |-> ws, wind_direction |-> wd, weather_description |-> desc,
     uv_index |-> uv, visibility |-> vis, cloud_cover |-> cc]
NoWeather == WeatherResponse("", 0, 0, 0, 0, "", "", 0, 0, 0)

\* the serializer writing the provider's key for feels_like
WeatherFields_provider_key(w) ==
    <<Field("location", JStr(w.location)),
      Field("temperature", JInt(ToString(w.temperature))),
      Field("feelslike", JInt(ToString(w.feels_like))),
      Field("humidity", JInt(ToString(w.humidity))),
      Field("wind_speed", JInt(ToString(w.wind_speed))),
      Field("wind_direction", JStr(w.wind_direction)),
      Field("weather_description", JStr(w.weather_description)),
      Field("uv_index", JInt(ToString(w.uv_index))),
      Field("visibility", JInt(ToString(w.visibility))),
      Field("cloud_cover", JInt(ToString(w.cloud_cover)))>>

\* lines 74-85: the fields of the response model, in their declared order
WeatherFields(w) ==
    <<Field("location", JStr(w.location)),
      Field("temperature", JInt(ToString(w.temperature))),
      Field("feels_like", JInt(ToString(w.feels_like))),
      Field("humidity", JInt(ToString(w.humidity))),
      Field("wind_speed", JInt(ToString(w.wind_speed))),
      Field("wind_direction", JStr(w.wind_direction)),
      Field("weather_description", JStr(w.weather_description)),
      Field("uv_index", JInt(ToString(w.uv_index))),
      Field("visibility", JInt(ToString(w.visibility))),
      Field("cloud_cover", JInt(ToString(w.cloud_cover)))>>

\* a response of the normalization server: the body as tokens, and the
\* WeatherResponse it was serialized from
McpResponse(status, body, w) == [status |-> status, body |-> body, weather |-> w]
NoMcpResponse == McpResponse(0, <<>>, NoWeather)
\* lines 54-63: http_exception_handler on detail={"error": msg}
McpError(status, msg) == McpResponse(status, json_dumps_error_tokens(JStr(msg)), NoWeather)
\* an exception no handler is registered for
McpUnhandled == McpResponse(500, Raw("Internal Server Error"), NoWeather)
McpOk(w) == McpResponse(200, json_dumps_object(WeatherFields(w)), w)

LOCATION_NOT_FOUND_CODES == {601, 615}

\* lines 170-187
normalise(data) ==
    LET c == data.current IN
    WeatherResponse(
        IF data.name.none THEN "" ELSE data.name.s,
        c.temperature, c.feelslike, c.humidity, c.wind_speed, c.wind_dir,
        IF c.weather_descriptions = <<>> THEN "" ELSE c.weather_descriptions[1],
        c.uv_index, c.visibility, c.cloudcover)

\* lines 122-187: get_weather from the outcome of the GET to the provider
get_weather(up) ==
    CASE up.kind = "timeout" -> McpError(502, "Weather service timed out.")
      [] up.kind = "connect_error" -> McpUnhandled
      [] up.status >= 400 ->
            McpError(502, "External weather service returned an error.")
      [] ~up.data.json -> McpUnhandled
      [] up.data.success = "false" ->
            LET code == IF up.data.error.code.none THEN 0 ELSE up.data.error.code.n
                msg == IF up.data.error.info.none
                       THEN "Unknown error from weather service."
                       ELSE up.data.error.info.s
            IN IF code \in LOCATION_NOT_FOUND_CODES
               THEN McpError(404, "Location not found.")
               ELSE McpError(400, msg)
      [] OTHER -> McpOk(normalise(up.data))

McpState(phase, caller, key, query, up, resp) ==
    [phase |-> phase, caller |-> caller, api_key |-> key, query |-> query,
     upstream |-> up, response |-> resp]
McpIdle == McpState("idle", "", TRUE, WeatherQuery(Absent, Absent), NoUpstream,
                    NoMcpResponse)

(* main.py: the launcher *)

MCP_LOG == "mcp_server.log"
AGENT_LOG == "agent_server.log"
FRONTEND_LOG == "frontend.log"

\* the timeout of each service's health check, in seconds
health_timeout(svc) ==
    CASE svc = "mcp" -> 30
      [] svc = "agent" -> 15
      [] OTHER -> 30

\* entries of the launcher's log of what it did
Started(svc) == [kind |-> "start", svc |-> svc, timeout |-> 0, outcome |-> ""]
Waited(svc, timeout, verdict) ==
    [kind |-> "wait", svc |-> svc, timeout |-> timeout, outcome |-> verdict]
PrintedUrl == [kind |-> "url", svc |-> "", timeout |-> 0, outcome |-> ""]

\* main() before its first statement: pc is its position; opened are the
\* files open() returned and closed those close() was called on; log_files
\* and procs are the two lists; state and terminated tell of each
\* subprocess whether it runs and whether terminate() was called on it; exc
\* is the exception in flight and exit the exit status (-1 while running)
LauncherIdle ==
    [pc |-> "open_logs", opened |-> <<>>, log_files |-> <<>>, closed |-> {},
     procs |-> <<>>,
     state |-> [svc \in {"mcp", "agent", "frontend"} |-> "not_started"],
     terminated |-> {}, log |-> <<>>, exc |-> "", exit |-> 0 - 1]

Range(seq) == {seq[i] : i \in 1..Len(seq)}

\* lines 53-63: _shutdown(procs, log_files); lingering are the subprocesses
\* that have not exited 5 s after terminate()
shutdown(l, lingering) ==
    [l EXCEPT
        !.terminated = @ \cup Range(l.procs),
        !.state = [svc \in DOMAIN @ |->
            IF svc \in Range(l.procs) /\ @[svc] = "running"
            THEN (IF svc \in lingering THEN "killed" ELSE "exited")
            ELSE @[svc]],
        !.closed = @ \cup Range(l.log_files)]

\* the launcher going on to the next service whatever the health check said
after_health_ignoring(svc, verdict) ==
    CASE verdict = "interrupt" -> "finally"
      [] svc = "mcp" -> "start_agent"
      [] svc = "agent" -> "open_frontend_log"
      [] OTHER -> "ready"

\* lines 100-155: where main() goes after _wait_for_health returned
after_health(svc, verdict) ==
    CASE verdict = "interrupt" -> "finally"
      [] verdict = "timeout" -> "failed"
      [] svc = "mcp" -> "start_agent"
      [] svc = "agent" -> "open_frontend_log"
      [] OTHER -> "ready"

\* the exit status of the interpreter for the exception main() ended with
exit_status(exc) ==
    CASE exc = "" -> 0
      [] exc = "KeyboardInterrupt" -> 130
      [] OTHER -> 1

(* frontend/app.py: the chat UI *)

\* a value that may be None
Opt(present, s) == [none |-> ~present, s |-> s]
Missing == Opt(FALSE, "")

\* the lines response.iter_lines() gives: a line without the "data: "
\* prefix, a data line that is no JSON, a data line whose JSON is no object,
\* or a data line carrying an event object whose keys may be missing
SseLine(kind, type, text, tool_used) ==
    [kind |-> kind, type |-> type, text |-> text, tool_used |-> tool_used]
LINE_COMMENT == SseLine("other", "", Missing, FALSE)
LINE_BAD_JSON == SseLine("bad_json", "", Missing, FALSE)
LINE_NON_OBJECT == SseLine("non_object", "", Missing, FALSE)
StatusLine(msg) == SseLine("event", "status", Opt(TRUE, msg), FALSE)
ResultLine(reply, tool_used) == SseLine("event", "result", reply, tool_used)
ErrorLine(msg) == SseLine("event", "error", msg, FALSE)

\* lines 55-57: reply_text, tool_used, error_message
Locals(reply_text, tool_used, error_message) ==
    [reply_text |-> reply_text, tool_used |-> tool_used,
     error_message |-> error_message]

MSG_AGENT_STATUS(status) == "Agent returned error " \o ToString(status) \o "."
MSG_NO_CONNECTION == "Could not connect to the weather agent. Is it running?"
MSG_DEFAULT_ERROR == "An error occurred."

\* event.get(key, default)
GetOr(v, default) == IF v.none THEN default ELSE v.s

\* lines 67-85 for one line: the locals after it, and whether it raised
on_line(line, l) ==
    CASE line.kind = "other" -> [locals |-> l, exc |-> ""]
      [] line.kind = "bad_json" -> [locals |-> l, exc |-> ""]
      [] line.kind = "non_object" -> [locals |-> l, exc |-> "AttributeError"]
      [] line.type = "result" ->
            [locals |-> [l EXCEPT !.reply_text = Opt(TRUE, GetOr(line.text, "")),
                                  !.tool_used = line.tool_used],
             exc |-> ""]
      [] line.type = "error" ->
            [locals |-> [l EXCEPT
                !.error_message = Opt(TRUE, GetOr(line.text, MSG_DEFAULT_ERROR))],
             exc |-> ""]
      [] OTHER -> [locals |-> l, exc |-> ""]

\* lines 67-90: the loop over the lines; an exception ends it with
\* error_message set to the exception's text
RECURSIVE iter_lines(_, _, _)
iter_lines(lines, i, l) ==
    IF i > Len(lines) THEN l
    ELSE LET r == on_line(lines[i], l) IN
         IF r.exc # ""
         THEN [r.locals EXCEPT !.error_message = Opt(TRUE, r.exc)]
         ELSE iter_lines(lines, i + 1, r.locals)

\* what the POST gave: no connection, or a status and the lines of the body
HttpExchange(kind, status, lines) ==
    [kind |-> kind, status |-> status, lines |-> lines]
NoExchange == HttpExchange("none", 0, <<>>)

\* lines 59-90: the locals when the with-block is left
stream_response(http) ==
    LET l0 == Locals(Missing, FALSE, Missing) IN
    CASE http.kind = "connect_error" ->
            [l0 EXCEPT !.error_message = Opt(TRUE, MSG_NO_CONNECTION)]
      [] http.status # 200 ->
            [l0 EXCEPT !.error_message = Opt(TRUE, MSG_AGENT_STATUS(http.status))]
      [] OTHER -> iter_lines(http.lines, 1, l0)

UiMessage(role, content, tool_used) ==
    [role |-> role, content |-> content, tool_used |-> tool_used]

\* the history built from every message, the current one included
history_payload_with_current(msgs) ==
    [i \in 1..Len(msgs) |-> [role |-> msgs[i].role, content |-> msgs[i].content]]

\* lines 46-49: role and content of every message but the last
history_payload(msgs) ==
    [i \in 1..(Len(msgs) - 1) |-> [role |-> msgs[i].role, content |-> msgs[i].content]]

\* the reply persisted whenever there is one, an error or not
persist_despite_error(msgs, l) ==
    IF ~l.reply_text.none
    THEN Append(msgs, UiMessage("assistant", l.reply_text.s, l.tool_used))
    ELSE msgs

\* lines 92-104: `if error_message: ... elif reply_text is not None:`
persist(msgs, l) ==
    IF ~l.error_message.none /\ l.error_message.s # "" THEN msgs
    ELSE IF ~l.reply_text.none
    THEN Append(msgs, UiMessage("assistant", l.reply_text.s, l.tool_used))
    ELSE msgs

\* lines 26-27: the session before its first prompt; log holds the payload
\* of each POST and last what the latest POST gave
UiIdle == [messages |-> <<>>, log |-> <<>>, last |-> NoExchange]

AuxIdle ==
    /\ lifespan = LifespanBoot
    /\ mcp = McpIdle
    /\ launcher = LauncherIdle
    /\ ui = UiIdle

----------------------------------------------------------------------------
(* The state machine *)

Init ==
    /\ history \in Histories
    /\ message \in UserMessages
    /\ chosen = {}
    /\ env = NoAnswer
    /\ pc = [m \in Modes |-> "start"]
    /\ messages = [m \in Modes |-> <<>>]
    /\ choice = [m \in Modes |-> LLMRaised]
    /\ location = [m \in Modes |-> ""]
    /\ result = [m \in Modes |-> ToolText("")]
    /\ calls = [m \in Modes |-> <<>>]
    /\ outcome = [m \in Modes |-> NotDone]
    /\ events = <<>>
    /\ trace = [m \in Modes |-> <<>>]
    /\ chat_client = "client"
    /\ request = NoRequest
    /\ response = NoResponse
    /\ AuxIdle

\* the answer of an external capability: drawn when the first run asks for
\* it, the same for the other run
Answers(key, all) == IF key \in chosen THEN {env[key]} ELSE all
Fix(key, a) ==
    /\ chosen' = chosen \cup {key}
    /\ env' = [env EXCEPT ![key] = a]

\* run m starts: builds its message list and sends round 1, with the tools
Begin(m, yields) ==
    /\ pc[m] = "start"
    /\ messages' = [messages EXCEPT ![m] = build_messages(history, message)]
    /\ calls' = [calls EXCEPT ![m] = Append(@, LLMCall(messages'[m], TRUE))]
    /\ pc' = [pc EXCEPT ![m] = "round1"]
    /\ events' = events \o yields
    /\ trace' = [trace EXCEPT ![m] =
            @ \o Yields(yields) \o <<CallEntry(LLMCall(messages'[m], TRUE))>>]
    /\ UNCHANGED <<history, message, chosen, env, choice, location, result, outcome>>
    /\ UNCHANGED <<srv, aux>>

\* run m resumes with the answer r of round 1 and takes the step st
AfterRound1(m, r, st) ==
    /\ Fix("r1", r)
    /\ choice' = [choice EXCEPT ![m] = r]
    /\ location' = [location EXCEPT ![m] = st.location]
    /\ calls' = [calls EXCEPT ![m] =
            IF st.next = "weather" THEN Append(@, WeatherCall(st.location)) ELSE @]
    /\ pc' = [pc EXCEPT ![m] = st.next]
    /\ outcome' = [outcome EXCEPT ![m] = st.outcome]
    /\ events' = events \o st.yields
    /\ trace' = [trace EXCEPT ![m] =
            @ \o <<IF r.raised THEN RaiseEntry("llm") ELSE ReturnEntry("llm")>>
              \o Yields(st.yields)
              \o (IF st.next = "weather"
                  THEN <<CallEntry(WeatherCall(st.location))>> ELSE <<>>)]
    /\ UNCHANGED <<history, message, messages, result>>
    /\ UNCHANGED <<srv, aux>>

\* the run's list being the caller's history list itself
caller_history_aliased(h, appended) == h \o appended

\* agent.py lines 37-45 and 98-100: _build_messages returns a new list of new
\* dicts, so what the run appends to its list is not appended to the
\* caller's history
caller_history(h, appended) == h

\* run m resumes with the answer of the HTTP call inside
\* execute_get_current_weather; on a text result it appends the two turns
\* and sends round 2, without the tools
AfterLookup(m, http, res, yields) ==
    /\ Fix("wx", http)
    /\ result' = [result EXCEPT ![m] = res]
    /\ IF res.exc # ""
       THEN /\ pc' = [pc EXCEPT ![m] = "done"]
            /\ outcome' = [outcome EXCEPT ![m] = Raise(res.exc)]
            /\ trace' = [trace EXCEPT ![m] = Append(@, RaiseEntry("weather"))]
            /\ UNCHANGED <<messages, calls, events>>
       ELSE /\ messages' = [messages EXCEPT ![m] =
                    @ \o <<AssistantMsg(choice[m]),
                           ToolMsg(res.text, choice[m].tool_calls.list[1].id)>>]
            /\ calls' = [calls EXCEPT ![m] = Append(@, LLMCall(messages'[m], FALSE))]
            /\ pc' = [pc EXCEPT ![m] = "round2"]
            /\ events' = events \o yields
            /\ trace' = [trace EXCEPT ![m] =
                    @ \o <<ReturnEntry("weather")>> \o Yields(yields)
                      \o <<CallEntry(LLMCall(messages'[m], FALSE))>>]
            /\ UNCHANGED outcome
    /\ history' = IF res.exc # "" THEN history
                   ELSE caller_history(history,
                            <<[role |-> "assistant", content |-> <<>>],
                              [role |-> "tool", content |-> <<res.text>>]>>)
    /\ UNCHANGED <<message, choice, location>>
    /\ UNCHANGED <<srv, aux>>

\* run m resumes with the answer r of round 2 and ends
AfterRound2(m, r, st) ==
    /\ Fix("r2", r)
    /\ pc' = [pc EXCEPT ![m] = st.next]
    /\ outcome' = [outcome EXCEPT ![m] = st.outcome]
    /\ events' = events \o st.yields
    /\ trace' = [trace EXCEPT ![m] =
            @ \o <<IF r.raised THEN RaiseEntry("llm") ELSE ReturnEntry("llm")>>
              \o Yields(st.yields)]
    /\ UNCHANGED <<history, message, messages, choice, location, result, calls>>
    /\ UNCHANGED <<srv, aux>>

AfterWeather(m, http, yields) ==
    AfterLookup(m, http, execute_get_current_weather(location[m], http), yields)

RunAgent_Start == Begin("collect", <<>>)

RunAgent_Round1 ==
    /\ pc["collect"] = "round1"
    /\ \E r \in Answers("r1", Round1Answers) :
          AfterRound1("collect", r, run_agent_round1(r))

RunAgent_Weather ==
    /\ pc["collect"] = "weather"
    /\ \E http \in Answers("wx", HttpAnswers) : AfterWeather("collect", http, <<>>)

RunAgent_Round2 ==
    /\ pc["collect"] = "round2"
    /\ \E r \in Answers("r2", Round2Answers) :
          AfterRound2("collect", r, run_agent_round2(r))

RunAgentStream_Start == Begin("stream", <<Status(MSG_ANALYZING)>>)

RunAgentStream_Round1 ==
    /\ pc["stream"] = "round1"
    /\ \E r \in Answers("r1", Round1Answers) :
          AfterRound1("stream", r, run_agent_stream_round1(r))

RunAgentStream_Weather ==
    /\ pc["stream"] = "weather"
    /\ \E http \in Answers("wx", HttpAnswers) :
          AfterWeather("stream", http, <<Status(MSG_GENERATING)>>)

RunAgentStream_Round2 ==
    /\ pc["stream"] = "round2"
    /\ \E r \in Answers("r2", Round2Answers) :
          AfterRound2("stream", r, run_agent_stream_round2(r))

Next ==
    \/ RunAgent_Start
    \/ RunAgent_Round1
    \/ RunAgent_Weather
    \/ RunAgent_Round2
    \/ RunAgentStream_Start
    \/ RunAgentStream_Round1
    \/ RunAgentStream_Weather
    \/ RunAgentStream_Round2

Spec == Init /\ [][Next]_vars

----------------------------------------------------------------------------
(* _build_messages alone, on longer histories *)

InitBuild ==
    /\ history \in BuildHistories
    /\ message \in UserMessages
    /\ chosen = {}
    /\ env = NoAnswer
    /\ pc = [m \in Modes |-> "idle"]
    /\ messages = [m \in Modes |-> <<>>]
    /\ choice = [m \in Modes |-> LLMRaised]
    /\ location = [m \in Modes |-> ""]
    /\ result = [m \in Modes |-> ToolText("")]
    /\ calls = [m \in Modes |-> <<>>]
    /\ outcome = [m \in Modes |-> NotDone]
    /\ events = <<>>
    /\ trace = [m \in Modes |-> <<>>]
    /\ chat_client = "client"
    /\ request = NoRequest
    /\ response = NoResponse
    /\ AuxIdle

BuildMessages ==
    /\ pc["collect"] = "idle"
    /\ messages' = [messages EXCEPT !["collect"] = build_messages(history, message)]
    /\ pc' = [pc EXCEPT !["collect"] = "built"]
    /\ UNCHANGED <<history, message, chosen, env, choice, location, result, calls,
                   outcome, events, trace, srv, aux>>

NextBuild == BuildMessages

SpecBuild == InitBuild /\ [][NextBuild]_vars

----------------------------------------------------------------------------
(* agent_server.py: one request to the server *)

InitChat ==
    /\ request \in Requests
    /\ chat_client \in {"none", "client"}
    /\ response = NoResponse
    /\ history = <<>>
    /\ message = <<>>
    /\ chosen = {}
    /\ env = NoAnswer
    /\ pc = [m \in Modes |-> "idle"]
    /\ messages = [m \in Modes |-> <<>>]
    /\ choice = [m \in Modes |-> LLMRaised]
    /\ location = [m \in Modes |-> ""]
    /\ result = [m \in Modes |-> ToolText("")]
    /\ calls = [m \in Modes |-> <<>>]
    /\ outcome = [m \in Modes |-> NotDone]
    /\ events = <<>>
    /\ trace = [m \in Modes |-> <<>>]
    /\ AuxIdle

run == <<history, message, chosen, env, pc, messages, choice, location,
         result, calls, outcome, events, trace>>

Answer(resp) ==
    /\ response = NoResponse
    /\ response' = resp
    /\ UNCHANGED <<chat_client, request, aux>>

\* no route of the app matches the request
Route_NotFound ==
    /\ request.route \notin RegisteredRoutes
    /\ Answer(NotFoundResponse)
    /\ UNCHANGED run

\* lines 62-68
Health ==
    /\ request.route = ROUTE_HEALTH
    /\ Answer(health(chat_client))
    /\ UNCHANGED run

\* lines 55-57: the body does not validate as ChatRequest
Chat_Invalid ==
    /\ request.route = ROUTE_CHAT
    /\ ~ValidChatRequest(request)
    /\ Answer(ErrorResponse(400, MSG_INVALID_BODY))
    /\ UNCHANGED run

\* lines 79-84: no chat client
Chat_NoClient ==
    /\ request.route = ROUTE_CHAT
    /\ ValidChatRequest(request)
    /\ chat_client_missing(chat_client)
    /\ Answer(ErrorResponse(500, MSG_NO_CLIENT))
    /\ UNCHANGED run

\* lines 86-92: chat() calls run_agent with the request's message and history
Chat_Enter ==
    /\ request.route = ROUTE_CHAT
    /\ ValidChatRequest(request)
    /\ ~chat_client_missing(chat_client)
    /\ response = NoResponse
    /\ pc["collect"] = "idle"
    /\ history' = request.history
    /\ message' = request.message.text
    /\ pc' = [pc EXCEPT !["collect"] = "start"]
    /\ UNCHANGED <<chosen, env, messages, choice, location, result, calls,
                   outcome, events, trace, srv, aux>>

\* lines 93-102: chat() answers with run_agent's outcome
Chat_Respond ==
    /\ request.route = ROUTE_CHAT
    /\ pc["collect"] = "done"
    /\ Answer(chat_result(outcome["collect"]))
    /\ UNCHANGED run

NextChat ==
    \/ Route_NotFound
    \/ Health
    \/ Chat_Invalid
    \/ Chat_NoClient
    \/ Chat_Enter
    \/ RunAgent_Start
    \/ RunAgent_Round1
    \/ RunAgent_Weather
    \/ RunAgent_Round2
    \/ Chat_Respond

SpecChat == InitChat /\ [][NextChat]_vars

----------------------------------------------------------------------------
(* Several run_agent coroutines interleaved at their suspension points.    *)
(* Here every per-run variable is indexed by the run, and the message list *)
(* by the frame that holds it.                                             *)

Runs == 1..MaxRuns

ConcMessages == {<<"Weather", " ", "in", " ", "Austin?">>, <<"Hello">>}
ConcRound1Answers ==
    {LLMRaised,
     Response("stop", Str(<<"Sunny">>), NoToolCalls),
     Response("tool_calls", None, ToolCallList(<<ToolCall(1, ARGS_AUSTIN)>>)),
     Response("tool_calls", None, ToolCallList(<<ToolCall(2, ARGS_ATLANTIS)>>)),
     Response("tool_calls", None, ToolCallList(<<ToolCall(1, ARGS_BAD_JSON)>>))}
ConcHttpAnswers ==
    {HttpResponse(200, BODY_WEATHER), HttpResponse(404, BODY_NOT_FOUND),
     HttpResponse(500, BODY_PLAIN)}
ConcRound2Answers == {LLMRaised, Response("stop", Str(<<"Sunny", " ">>), NoToolCalls)}

\* one list for all runs, as a module-level `messages` would be
frame_shared(r) == 1

\* `messages` is a local of run_agent: each call has its own
frame(r) == r

InitConc ==
    /\ history = [r \in Runs |-> <<>>]
    /\ message \in [Runs -> ConcMessages]
    /\ chosen = {}
    /\ env = [r \in Runs |-> NoAnswer]
    /\ pc = [r \in Runs |-> "start"]
    /\ messages = [r \in Runs |-> <<>>]
    /\ choice = [r \in Runs |-> LLMRaised]
    /\ location = [r \in Runs |-> ""]
    /\ result = [r \in Runs |-> ToolText("")]
    /\ calls = [r \in Runs |-> <<>>]
    /\ outcome = [r \in Runs |-> NotDone]
    /\ events = <<>>
    /\ trace = [r \in Runs |-> <<>>]
    /\ chat_client = "client"
    /\ request = NoRequest
    /\ response = NoResponse
    /\ AuxIdle

\* lines 63-73: run r builds its list and awaits round 1
Conc_Start(r) ==
    /\ pc[r] = "start"
    /\ messages' = [messages EXCEPT ![frame(r)] = build_messages(history[r], message[r])]
    /\ calls' = [calls EXCEPT ![r] = Append(@, LLMCall(messages'[frame(r)], TRUE))]
    /\ pc' = [pc EXCEPT ![r] = "round1"]
    /\ UNCHANGED <<history, message, chosen, env, choice, location, result,
                   outcome, events, trace, srv, aux>>

\* lines 75-96 and 115-128: run r resumes with the answer of round 1
Conc_Round1(r) ==
    /\ pc[r] = "round1"
    /\ \E a \in ConcRound1Answers :
        LET st == run_agent_round1(a) IN
        /\ chosen' = chosen \cup {<<r, "r1">>}
        /\ env' = [env EXCEPT ![r].r1 = a]
        /\ choice' = [choice EXCEPT ![r] = a]
        /\ location' = [location EXCEPT ![r] = st.location]
        /\ calls' = [calls EXCEPT ![r] =
                IF st.next = "weather" THEN Append(@, WeatherCall(st.location)) ELSE @]
        /\ pc' = [pc EXCEPT ![r] = st.next]
        /\ outcome' = [outcome EXCEPT ![r] = st.outcome]
    /\ UNCHANGED <<history, message, messages, result, events, trace, srv, aux>>

\* lines 95-111: run r resumes with the answer of the lookup's HTTP call
Conc_Weather(r) ==
    /\ pc[r] = "weather"
    /\ \E http \in ConcHttpAnswers :
        LET res == execute_get_current_weather(location[r], http) IN
        /\ chosen' = chosen \cup {<<r, "wx">>}
        /\ env' = [env EXCEPT ![r].wx = http]
        /\ result' = [result EXCEPT ![r] = res]
        /\ IF res.exc # ""
           THEN /\ pc' = [pc EXCEPT ![r] = "done"]
                /\ outcome' = [outcome EXCEPT ![r] = Raise(res.exc)]
                /\ UNCHANGED <<messages, calls>>
           ELSE /\ messages' = [messages EXCEPT ![frame(r)] =
                        @ \o <<AssistantMsg(choice[r]),
                               ToolMsg(res.text, choice[r].tool_calls.list[1].id)>>]
                /\ calls' = [calls EXCEPT ![r] =
                        Append(@, LLMCall(messages'[frame(r)], FALSE))]
                /\ pc' = [pc EXCEPT ![r] = "round2"]
                /\ UNCHANGED outcome
    /\ UNCHANGED <<history, message, choice, location, events, trace, srv, aux>>

\* lines 113-128: run r resumes with the answer of round 2
Conc_Round2(r) ==
    /\ pc[r] = "round2"
    /\ \E a \in ConcRound2Answers :
        LET st == run_agent_round2(a) IN
        /\ chosen' = chosen \cup {<<r, "r2">>}
        /\ env' = [env EXCEPT ![r].r2 = a]
        /\ pc' = [pc EXCEPT ![r] = st.next]
        /\ outcome' = [outcome EXCEPT ![r] = st.outcome]
    /\ UNCHANGED <<history, message, messages, choice, location, result, calls,
                   events, trace, srv, aux>>

NextConc ==
    \E r \in Runs :
        \/ Conc_Start(r)
        \/ Conc_Round1(r)
        \/ Conc_Weather(r)
        \/ Conc_Round2(r)

SpecConc == InitConc /\ [][NextConc]_vars

----------------------------------------------------------------------------
(* agent_server.py: the life of the server process - lifespan startup, the *)
(* requests it answers one after the other, lifespan shutdown              *)

LifeRequests ==
    {Request(ROUTE_HEALTH, None, <<>>),
     Request(ROUTE_CHAT, Str(<<>>), <<>>),
     Request(ROUTE_CHAT_STREAM, Str(<<"Weather", " ", "in", " ", "Austin?">>), <<>>),
     Request(ROUTE_CHAT, Str(<<"Weather", " ", "in", " ", "Austin?">>), <<>>)}

\* the shutdown half closing the client without looking at it
lifespan_close_unconditional(client) == 1

\* lines 40-42: how many times the shutdown half closes the client
lifespan_close(client) == IF client # "none" THEN 1 ELSE 0

RunIdle ==
    /\ history = <<>>
    /\ message = <<>>
    /\ chosen = {}
    /\ env = NoAnswer
    /\ pc = [m \in Modes |-> "idle"]
    /\ messages = [m \in Modes |-> <<>>]
    /\ choice = [m \in Modes |-> LLMRaised]
    /\ location = [m \in Modes |-> ""]
    /\ result = [m \in Modes |-> ToolText("")]
    /\ calls = [m \in Modes |-> <<>>]
    /\ outcome = [m \in Modes |-> NotDone]
    /\ events = <<>>
    /\ trace = [m \in Modes |-> <<>>]

\* the locals of a handler that has returned
RunReset ==
    /\ history' = <<>>
    /\ message' = <<>>
    /\ chosen' = {}
    /\ env' = NoAnswer
    /\ pc' = [m \in Modes |-> "idle"]
    /\ messages' = [m \in Modes |-> <<>>]
    /\ choice' = [m \in Modes |-> LLMRaised]
    /\ location' = [m \in Modes |-> ""]
    /\ result' = [m \in Modes |-> ToolText("")]
    /\ calls' = [m \in Modes |-> <<>>]
    /\ outcome' = [m \in Modes |-> NotDone]
    /\ events' = <<>>
    /\ trace' = [m \in Modes |-> <<>>]

\* line 28: _chat_client is None when the module is loaded
InitLife ==
    /\ chat_client = "none"
    /\ request = NoRequest
    /\ response = NoResponse
    /\ RunIdle
    /\ AuxIdle

\* lines 31-38: the startup half; _make_chat_client() returns or raises
Lifespan_Startup ==
    /\ lifespan.phase = "boot"
    /\ \E made \in BOOLEAN :
        /\ chat_client' = IF made THEN "client" ELSE "none"
        /\ lifespan' = [lifespan EXCEPT
                !.phase = "serving",
                !.created = @ + (IF made THEN 1 ELSE 0)]
    /\ UNCHANGED <<request, response, mcp, launcher, ui>>
    /\ UNCHANGED run

\* a request reaches the serving application
Life_Receive ==
    /\ lifespan.phase = "serving"
    /\ request = NoRequest
    /\ lifespan.served < MaxRequests
    /\ request' \in LifeRequests
    /\ UNCHANGED <<chat_client, response, aux>>
    /\ UNCHANGED run

\* the application is handling a request
InRequest == lifespan.phase = "serving" /\ request # NoRequest

Life_NotFound == InRequest /\ Route_NotFound
Life_Health == InRequest /\ Health
Life_Chat_Invalid == InRequest /\ Chat_Invalid
Life_Chat_NoClient == InRequest /\ Chat_NoClient
Life_Chat_Enter == InRequest /\ Chat_Enter
Life_Chat_Respond == InRequest /\ Chat_Respond

\* the response is sent; the handler's frame and its run are gone
Life_Complete ==
    /\ InRequest
    /\ response # NoResponse
    /\ request' = NoRequest
    /\ response' = NoResponse
    /\ lifespan' = [lifespan EXCEPT !.served = @ + 1]
    /\ RunReset
    /\ UNCHANGED <<chat_client, mcp, launcher, ui>>

\* lines 39-42: the shutdown half, once no request is being handled
Lifespan_Shutdown ==
    /\ lifespan.phase = "serving"
    /\ request = NoRequest
    /\ lifespan' = [lifespan EXCEPT
            !.phase = "stopped",
            !.closed = @ + lifespan_close(chat_client)]
    /\ UNCHANGED <<srv, mcp, launcher, ui>>
    /\ UNCHANGED run

NextLife ==
    \/ Lifespan_Startup
    \/ Life_Receive
    \/ Life_NotFound
    \/ Life_Health
    \/ Life_Chat_Invalid
    \/ Life_Chat_NoClient
    \/ Life_Chat_Enter
    \/ RunAgent_Start
    \/ RunAgent_Round1
    \/ RunAgent_Weather
    \/ RunAgent_Round2
    \/ Life_Chat_Respond
    \/ Life_Complete
    \/ Lifespan_Shutdown

SpecLife == InitLife /\ [][NextLife]_vars

----------------------------------------------------------------------------
(* The lookup end to end: run_agent asks the normalization server, which   *)
(* asks the provider; the server also answers callers other than the agent *)

OtherQueries ==
    {WeatherQuery(loc, units) :
        loc \in {Absent, Param(""), Param("Austin")},
        units \in {Absent, Param("m"), Param("kelvin")}}

InitWeather ==
    /\ history = <<>>
    /\ message \in UserMessages
    /\ chosen = {}
    /\ env = NoAnswer
    /\ pc = [m \in Modes |-> IF m = "collect" THEN "start" ELSE "idle"]
    /\ messages = [m \in Modes |-> <<>>]
    /\ choice = [m \in Modes |-> LLMRaised]
    /\ location = [m \in Modes |-> ""]
    /\ result = [m \in Modes |-> ToolText("")]
    /\ calls = [m \in Modes |-> <<>>]
    /\ outcome = [m \in Modes |-> NotDone]
    /\ events = <<>>
    /\ trace = [m \in Modes |-> <<>>]
    /\ chat_client = "client"
    /\ request = NoRequest
    /\ response = NoResponse
    /\ lifespan = LifespanBoot
    /\ launcher = LauncherIdle
    /\ ui = UiIdle
    /\ \E key \in BOOLEAN : mcp = [McpIdle EXCEPT !.api_key = key]

McpStep(next) ==
    /\ mcp' = next
    /\ UNCHANGED <<run, srv, lifespan, launcher, ui>>

\* tools.py lines 28-31: the GET of execute_get_current_weather arrives
Mcp_Receive_Agent ==
    /\ pc["collect"] = "weather"
    /\ mcp.phase = "idle" \/ (mcp.phase = "responded" /\ mcp.caller = "other")
    /\ McpStep([mcp EXCEPT
            !.phase = "received", !.caller = "agent",
            !.query = WeatherQuery(Param(location["collect"]), Absent),
            !.upstream = NoUpstream, !.response = NoMcpResponse])

\* a GET /weather of another caller arrives, before the agent's
Mcp_Receive_Other ==
    /\ mcp.phase = "idle"
    /\ \E q \in OtherQueries :
        McpStep([mcp EXCEPT !.phase = "received", !.caller = "other", !.query = q])

\* lines 48-51: the parameters do not validate
GetWeather_Invalid ==
    /\ mcp.phase = "received"
    /\ ~ValidWeatherQuery(mcp.query)
    /\ McpStep([mcp EXCEPT
            !.phase = "responded",
            !.response = McpError(400, "Invalid request parameters.")])

\* lines 110-114: no API key
GetWeather_NoKey ==
    /\ mcp.phase = "received"
    /\ ValidWeatherQuery(mcp.query)
    /\ ~mcp.api_key
    /\ McpStep([mcp EXCEPT
            !.phase = "responded",
            !.response = McpError(503,
                "Weather service is unavailable: API key not configured.")])

\* lines 116-187: the GET to the provider and what get_weather makes of it
GetWeather_Upstream ==
    /\ mcp.phase = "received"
    /\ ValidWeatherQuery(mcp.query)
    /\ mcp.api_key
    /\ \E up \in UpstreamAnswers :
        McpStep([mcp EXCEPT
            !.phase = "responded", !.upstream = up, !.response = get_weather(up)])

\* tools.py lines 33-48 and agent.py lines 95-111: the response is back
RunAgent_Lookup ==
    /\ pc["collect"] = "weather"
    /\ mcp.phase = "responded"
    /\ mcp.caller = "agent"
    /\ LET http == HttpResponse(mcp.response.status, mcp.response.body) IN
       AfterLookup("collect", http,
                   execute_get_current_weather_tokens(location["collect"], http),
                   <<>>)

NextWeather ==
    \/ RunAgent_Start
    \/ RunAgent_Round1
    \/ Mcp_Receive_Agent
    \/ Mcp_Receive_Other
    \/ GetWeather_Invalid
    \/ GetWeather_NoKey
    \/ GetWeather_Upstream
    \/ RunAgent_Lookup
    \/ RunAgent_Round2

SpecWeather == InitWeather /\ [][NextWeather]_vars

----------------------------------------------------------------------------
(* main.py: one run of the launcher *)

InitLaunch ==
    /\ chat_client = "client"
    /\ request = NoRequest
    /\ response = NoResponse
    /\ RunIdle
    /\ AuxIdle

LauncherStep(next) ==
    /\ launcher' = next
    /\ UNCHANGED <<run, srv, lifespan, mcp, ui>>

\* lines 73-75: the two open() calls, then the assignment of log_files
Main_OpenLogs ==
    /\ launcher.pc = "open_logs"
    /\ \/ LauncherStep([launcher EXCEPT
                !.pc = "start_mcp", !.opened = <<MCP_LOG, AGENT_LOG>>,
                !.log_files = <<MCP_LOG, AGENT_LOG>>])
       \/ LauncherStep([launcher EXCEPT !.pc = "finally", !.exc = "OSError"])
       \/ LauncherStep([launcher EXCEPT
                !.pc = "finally", !.exc = "OSError", !.opened = <<MCP_LOG>>])

\* lines 92-98, 113-119, 136-144: Popen and procs.append, or Popen raising
StartService(svc) ==
    \/ LauncherStep([launcher EXCEPT
                !.pc = "wait_" \o svc, !.procs = Append(@, svc),
                !.state[svc] = "running", !.log = Append(@, Started(svc))])
    \/ LauncherStep([launcher EXCEPT !.pc = "finally", !.exc = "OSError"])

Main_StartMcp ==
    /\ launcher.pc = "start_mcp"
    /\ StartService("mcp")

Main_StartAgent ==
    /\ launcher.pc = "start_agent"
    /\ StartService("agent")

Main_StartFrontend ==
    /\ launcher.pc = "start_frontend"
    /\ StartService("frontend")

\* lines 38-48 and 100, 121, 146: _wait_for_health returns True or False,
\* or Ctrl-C interrupts it
WaitForHealth(svc) ==
    \E verdict \in {"healthy", "timeout", "interrupt"} :
        LauncherStep([launcher EXCEPT
            !.pc = after_health(svc, verdict),
            !.exc = IF verdict = "interrupt" THEN "KeyboardInterrupt" ELSE @,
            !.log = Append(@, Waited(svc, health_timeout(svc), verdict))])

Main_WaitMcp ==
    /\ launcher.pc = "wait_mcp"
    /\ WaitForHealth("mcp")

Main_WaitAgent ==
    /\ launcher.pc = "wait_agent"
    /\ WaitForHealth("agent")

Main_WaitFrontend ==
    /\ launcher.pc = "wait_frontend"
    /\ WaitForHealth("frontend")

\* lines 101-108, 122-129, 147-154: FAILED, _shutdown, sys.exit(1)
Main_Failed ==
    /\ launcher.pc = "failed"
    /\ \E lingering \in SUBSET Range(launcher.procs) :
        LauncherStep([shutdown(launcher, lingering) EXCEPT
            !.pc = "finally", !.exc = "SystemExit"])

\* lines 134-135: open() of the frontend log and log_files.append
Main_OpenFrontendLog ==
    /\ launcher.pc = "open_frontend_log"
    /\ \/ LauncherStep([launcher EXCEPT
                !.pc = "start_frontend", !.opened = Append(@, FRONTEND_LOG),
                !.log_files = Append(@, FRONTEND_LOG)])
       \/ LauncherStep([launcher EXCEPT !.pc = "finally", !.exc = "OSError"])

\* lines 155-158: all three are healthy, the URL is printed
Main_Ready ==
    /\ launcher.pc = "ready"
    /\ LauncherStep([launcher EXCEPT !.pc = "idle_loop", !.log = Append(@, PrintedUrl)])

\* lines 161-165: Ctrl-C ends the idle loop
Main_Interrupt ==
    /\ launcher.pc = "idle_loop"
    /\ LauncherStep([launcher EXCEPT !.pc = "finally"])

\* lines 167-169: the finally block, then the process exits
Main_Finally ==
    /\ launcher.pc = "finally"
    /\ \E lingering \in SUBSET Range(launcher.procs) :
        LauncherStep([shutdown(launcher, lingering) EXCEPT
            !.pc = "exited", !.exit = exit_status(launcher.exc)])

\* a subprocess ends on its own while the launcher runs
Proc_Exits ==
    /\ launcher.pc # "exited"
    /\ \E svc \in Range(launcher.procs) :
        /\ launcher.state[svc] = "running"
        /\ LauncherStep([launcher EXCEPT !.state[svc] = "exited"])

NextLaunch ==
    \/ Proc_Exits
    \/ Main_OpenLogs
    \/ Main_StartMcp
    \/ Main_WaitMcp
    \/ Main_StartAgent
    \/ Main_WaitAgent
    \/ Main_OpenFrontendLog
    \/ Main_StartFrontend
    \/ Main_WaitFrontend
    \/ Main_Failed
    \/ Main_Ready
    \/ Main_Interrupt
    \/ Main_Finally

SpecLaunch == InitLaunch /\ [][NextLaunch]_vars

----------------------------------------------------------------------------
(* frontend/app.py: one session of the chat UI *)

Prompts == {"Weather in Austin?", "And in Oslo?"}

UiLines ==
    {LINE_COMMENT, LINE_BAD_JSON, LINE_NON_OBJECT, StatusLine(MSG_ANALYZING),
     ResultLine(Opt(TRUE, "Sunny in Austin."), TRUE),
     ErrorLine(Opt(TRUE, MSG_UNAVAILABLE))}

ErrorStatuses == {404, 422, 500}

InitUI ==
    /\ chat_client = "client"
    /\ request = NoRequest
    /\ response = NoResponse
    /\ RunIdle
    /\ AuxIdle

\* lines 39-104: one run of the script for a prompt, the POST giving http
Submit(prompt, http) ==
    LET msgs == Append(ui.messages, UiMessage("user", prompt, FALSE))
        payload == [message |-> prompt, history |-> history_payload(msgs)]
    IN  /\ ui' = [messages |-> persist(msgs, stream_response(http)),
                  log |-> Append(ui.log, payload),
                  last |-> http]
        /\ UNCHANGED <<run, srv, lifespan, mcp, launcher>>

\* line 87: the agent cannot be reached
Ui_ConnectError ==
    /\ Len(ui.log) < MaxExchanges
    /\ \E prompt \in Prompts :
        Submit(prompt, HttpExchange("connect_error", 0, <<>>))

\* lines 63-65: the agent answers with a status other than 200
Ui_ErrorStatus ==
    /\ Len(ui.log) < MaxExchanges
    /\ \E prompt \in Prompts, status \in ErrorStatuses :
        Submit(prompt, HttpExchange("response", status, <<>>))

\* lines 66-85: the agent answers 200 and streams lines
Ui_Stream ==
    /\ Len(ui.log) < MaxExchanges
    /\ \E prompt \in Prompts, lines \in SeqsUpTo(UiLines, MaxLines) :
        Submit(prompt, HttpExchange("response", 200, lines))

NextUI ==
    \/ Ui_ConnectError
    \/ Ui_ErrorStatus
    \/ Ui_Stream

SpecUI == InitUI /\ [][NextUI]_vars

----------------------------------------------------------------------------
(* Vocabulary of the properties *)

Done(m) == pc[m] = "done"
BothDone == \A m \in Modes : Done(m)
Terminal(e) == e.type \in {"result", "error"}
LastEvent == events[Len(events)]

\* round 1 was answered with a tool-call stop reason and a first tool call
ToolRequested ==
    /\ "r1" \in chosen
    /\ ~env.r1.raised
    /\ env.r1.finish_reason = "tool_calls"
    /\ ~env.r1.tool_calls.none
    /\ env.r1.tool_calls.list # <<>>
FirstArgs == json_loads(env.r1.tool_calls.list[1].arguments)

\* the argument payload is a structure holding a non-empty text `location`
ArgsValid ==
    /\ FirstArgs.ok
    /\ FirstArgs.t = "dict"
    /\ \E f \in FirstArgs.fields : f.k = "location" /\ f.v.t = "str" /\ f.v.s # ""
\* the payload does not parse, or lacks the key, or holds an empty or
\* non-text location: the cases the code's except clause names
ArgsRejected ==
    \/ ~FirstArgs.ok
    \/ /\ FirstArgs.t = "dict"
       /\ \A f \in FirstArgs.fields : f.k = "location" => (f.v.t # "str" \/ f.v.s = "")

\* round 1 was answered without a tool-call stop reason
NoToolRequested ==
    /\ "r1" \in chosen
    /\ ~env.r1.raised
    /\ env.r1.finish_reason # "tool_calls"

----------------------------------------------------------------------------
(* C1: in progressive mode every event but the last is a status event, so  *)
(* the sequence holds at most one terminal event (result or error), never  *)
(* both, and once a terminal event is emitted the run is over and emits    *)
(* nothing more.                                                           *)
C1_OneTerminalEventLast ==
    /\ \A i \in 1..Len(events) : i < Len(events) => events[i].type = "status"
    /\ (events # <<>> /\ Terminal(LastEvent)) => Done("stream")

C1_Witness ==
    /\ Done("stream")
    /\ Len(events) = 4
    /\ LastEvent.type = "result"
    /\ \A i \in 1..3 : events[i].type = "status"

(* C2: every run of progressive mode ends with a terminal event: when the  *)
(* run is over the event sequence is non-empty and its last event is a     *)
(* result or an error.                                                     *)
C2_EndsWithTerminalEvent ==
    Done("stream") => (events # <<>> /\ Terminal(LastEvent))

(* C3 as stated: on the same inputs and the same external answers the      *)
(* progressive run ends in Result{reply, toolUsed} exactly when the        *)
(* collecting run returns that (reply, toolUsed), ends in Error exactly    *)
(* when the collecting run signals one of its failures (AgentError), and   *)
(* both make the same external calls in the same order.                    *)
C3_IdenticalOutcomes ==
    BothDone =>
        /\ calls["collect"] = calls["stream"]
        /\ (outcome["collect"].kind = "return") <=>
                (events # <<>> /\ LastEvent.type = "result")
        /\ outcome["collect"].kind = "return" =>
                LastEvent = ResultEvent(outcome["collect"].reply,
                                        outcome["collect"].tool_used)
        /\ (outcome["collect"].kind = "raise" /\ outcome["collect"].exc \in AgentErrors)
                <=> (events # <<>> /\ LastEvent.type = "error")

(* C3 amended: the two modes make the same external calls in the same      *)
(* order and agree on every outcome but one: on a rejected tool-argument   *)
(* payload the collecting run returns the rephrase message with            *)
(* toolUsed=false while the progressive run ends in an Error event.        *)
(* Everywhere else Result{reply, toolUsed} matches the returned pair,      *)
(* Error matches AgentError, and an exception of another kind leaves both. *)
C3_SameLogicButRejectedArgs ==
    BothDone =>
        /\ calls["collect"] = calls["stream"]
        /\ IF ToolRequested /\ ArgsRejected
           THEN /\ outcome["collect"] = Return(REPHRASE, FALSE)
                /\ LastEvent = ErrorEvent(MSG_PARSING)
           ELSE /\ (outcome["collect"].kind = "return") <=>
                        (events # <<>> /\ LastEvent.type = "result")
                /\ outcome["collect"].kind = "return" =>
                        LastEvent = ResultEvent(outcome["collect"].reply,
                                                outcome["collect"].tool_used)
                /\ (outcome["collect"].kind = "raise"
                        /\ outcome["collect"].exc \in AgentErrors)
                        <=> (events # <<>> /\ LastEvent.type = "error")
        /\ (outcome["collect"].kind = "raise"
                /\ outcome["collect"].exc \notin AgentErrors)
                <=> outcome["stream"] = outcome["collect"]

C3_Witness ==
    /\ BothDone
    /\ ToolRequested /\ ArgsRejected
    /\ outcome["collect"] = Return(REPHRASE, FALSE)
    /\ LastEvent = ErrorEvent(MSG_PARSING)
    /\ calls["collect"] = calls["stream"]

(* C4: in collecting mode, when round 1 signals a tool call whose argument *)
(* payload does not parse, or parses to something that is not a structure  *)
(* holding a `location` key, or holds an empty or non-text location, the   *)
(* run makes no weather call and no round 2 and returns the fixed rephrase *)
(* message with toolUsed=false.                                            *)
C4_MalformedArgsDegrade ==
    (Done("collect") /\ ToolRequested /\ ~ArgsValid) =>
        /\ outcome["collect"] = Return(REPHRASE, FALSE)
        /\ Len(calls["collect"]) = 1

(* C5: a collecting run ends by returning a (reply, toolUsed) pair or by   *)
(* raising AgentError (model unavailable, empty model output), never by    *)
(* any other exception.                                                    *)
C5_OnlyAgentErrorEscapes ==
    Done("collect") =>
        \/ outcome["collect"].kind = "return"
        \/ outcome["collect"].kind = "raise" /\ outcome["collect"].exc \in AgentErrors

(* C6: execute_get_current_weather never raises: whatever the HTTP call    *)
(* gives, the orchestrator gets a text back.                               *)
C6_LookupNeverRaises ==
    \A m \in Modes : result[m].exc = ""

\* empty or whitespace only
IsBlank(c) == c.none \/ \A i \in 1..Len(c.text) : IsSpace(c.text[i])

\* run m went through round 2 and the model answered it
Round2Answered(m) ==
    /\ Done(m)
    /\ Len(calls[m]) = 3
    /\ "r2" \in chosen
    /\ ~env.r2.raised

(* C7: when the text expected as the final answer is empty or blank - the  *)
(* round-1 content on the no-tool path, the round-2 content on the tool    *)
(* path - the collecting run raises AgentError for empty output and the    *)
(* progressive run ends in the empty-response error event.                 *)
C7_BlankIsEmptyModelOutput ==
    /\ (Done("collect") /\ NoToolRequested /\ IsBlank(env.r1.content)) =>
            outcome["collect"] = Raise(EMPTY_CONTENT)
    /\ (Round2Answered("collect") /\ IsBlank(env.r2.content)) =>
            outcome["collect"] = Raise(EMPTY_CONTENT)
    /\ (Done("stream") /\ NoToolRequested /\ IsBlank(env.r1.content)) =>
            LastEvent = ErrorEvent(MSG_EMPTY)
    /\ (Round2Answered("stream") /\ IsBlank(env.r2.content)) =>
            LastEvent = ErrorEvent(MSG_EMPTY)

(* C8: a run ends with a reply or with an error, never both, and the reply *)
(* text of every successful outcome (the first element of run_agent's pair *)
(* and the reply of every result event) is non-empty.                      *)
C8_ReplyNonEmpty ==
    /\ Done("collect") => outcome["collect"].kind \in {"return", "raise"}
    /\ (Done("collect") /\ outcome["collect"].kind = "return") =>
            outcome["collect"].reply # <<>>
    /\ \A i \in 1..Len(events) :
            /\ events[i].type = "result" => events[i].reply # <<>>
            /\ Terminal(events[i]) => i = Len(events)

(* C9: when round 1 signals a tool call with a valid payload {location: L} *)
(* the run calls the weather capability exactly once, with L, calls the    *)
(* model capability for round 2 exactly once, and a returned result has    *)
(* toolUsed=true.                                                          *)
C9_ValidToolCallRunsLookupAndRound2 ==
    (Done("collect") /\ ToolRequested /\ ArgsValid) =>
        LET L == (CHOOSE f \in FirstArgs.fields : f.k = "location").v.s IN
        /\ Len(calls["collect"]) = 3
        /\ calls["collect"][1].target = "llm"
        /\ calls["collect"][2] = WeatherCall(L)
        /\ calls["collect"][3].target = "llm"
        /\ outcome["collect"].kind = "return" => outcome["collect"].tool_used

\* r is t without its leading and trailing whitespace
IsStripOf(r, t) ==
    \E i \in 1..(Len(t) + 1), j \in 0..Len(t) :
        /\ r = SubSeq(t, i, j)
        /\ \A k \in 1..Len(t) : (k < i \/ k > j) => IsSpace(t[k])
        /\ r # <<>> => (~IsSpace(r[1]) /\ ~IsSpace(r[Len(r)]))

\* round 1 gave a non-empty text and no tool call
DirectAnswer ==
    /\ Done("collect")
    /\ NoToolRequested
    /\ ~env.r1.content.none
    /\ env.r1.content.text # <<>>

(* C10 as stated: when round 1 signals no tool call and returns non-empty  *)
(* text, the result is (that text, toolUsed=false), the model capability   *)
(* was called once and the weather capability not at all.                  *)
C10_DirectAnswerVerbatim ==
    DirectAnswer =>
        /\ outcome["collect"] = Return(env.r1.content.text, FALSE)
        /\ Len(calls["collect"]) = 1
        /\ calls["collect"][1].target = "llm"

(* C10 amended: when round 1 signals no tool call and returns non-empty    *)
(* text, the result is (that text without its leading and trailing         *)
(* whitespace, toolUsed=false), the model capability was called once and   *)
(* the weather capability not at all.                                      *)
C10_DirectAnswerStripped ==
    DirectAnswer =>
        /\ outcome["collect"].kind = "return"
        /\ IsStripOf(outcome["collect"].reply, env.r1.content.text)
        /\ ~outcome["collect"].tool_used
        /\ Len(calls["collect"]) = 1
        /\ calls["collect"][1].target = "llm"

C10_Witness ==
    /\ DirectAnswer
    /\ env.r1.content.text = <<" ", "Sunny">>
    /\ outcome["collect"] = Return(<<"Sunny">>, FALSE)
    /\ calls["collect"] = <<LLMCall(build_messages(history, message), TRUE)>>

----------------------------------------------------------------------------
\* run m got the failure of the model capability in round 1 / in round 2
Round1Failed(m) == Done(m) /\ "r1" \in chosen /\ env.r1.raised
Round2Failed(m) ==
    Done(m) /\ Len(calls[m]) = 3 /\ "r2" \in chosen /\ env.r2.raised

\* run m signalled ModelUnavailable and produced no reply
SignalsModelUnavailable(m) ==
    IF m = "collect"
    THEN outcome[m] = Raise(MODEL_UNAVAILABLE)
    ELSE /\ events # <<>>
         /\ LastEvent = ErrorEvent(MSG_UNAVAILABLE)
         /\ \A i \in 1..Len(events) : events[i].type # "result"

(* C11: when the model capability fails in round 1, or in round 2 after a  *)
(* tool was executed, the run signals ModelUnavailable and produces no     *)
(* reply; after a round-1 failure there is no weather call and no round 2, *)
(* and a round-2 failure is never turned into a successful result.         *)
C11_ModelFailureIsFatal ==
    \A m \in Modes :
        /\ Round1Failed(m) => (SignalsModelUnavailable(m) /\ Len(calls[m]) = 1)
        /\ Round2Failed(m) =>
                (SignalsModelUnavailable(m) /\ calls[m][2].target = "weather")

C11_Witness ==
    /\ Round2Failed("collect")
    /\ Round2Failed("stream")
    /\ outcome["collect"] = Raise(MODEL_UNAVAILABLE)
    /\ LastEvent = ErrorEvent(MSG_UNAVAILABLE)

\* the HTTP call of run m's lookup failed: not found, provider error,
\* timeout or unreachable
LookupFailed(m) ==
    /\ Done(m)
    /\ Len(calls[m]) >= 2
    /\ "wx" \in chosen
    /\ (env.wx.kind # "response" \/ env.wx.status # 200)

(* C12: a weather lookup failure does not stop the run: the failure text   *)
(* (naming the requested location when the outcome is not-found) is the    *)
(* tool result sent in round 2, round 2 is made, and a returned result has *)
(* toolUsed=true.                                                          *)
C12_LookupFailureGoesToRound2 ==
    \A m \in Modes :
        LookupFailed(m) =>
            /\ Len(calls[m]) = 3
            /\ LET sent == calls[m][3].messages
                   tool == sent[Len(sent)]
               IN /\ tool.role = "tool"
                  /\ json_loads(tool.content.text[1]) = JDecodeError
                        \/ HasKey(json_loads(tool.content.text[1]), "error")
                  /\ (env.wx.kind = "response" /\ env.wx.status = 404) =>
                        tool.content.text[1] =
                            "{\"error\": \"Location '" \o location[m]
                                \o "' was not found.\"}"
            /\ outcome[m].kind = "return" => outcome[m].tool_used

\* the calls of run m and how each came back, without the yields
IsExchange(e) == e.kind # "yield"
Exchanges(m) == SelectSeq(trace[m], IsExchange)
ExchangeOrder == <<"llm", "llm", "weather", "weather", "llm", "llm">>

(* C13: in both modes round 1 comes before the weather lookup and the      *)
(* lookup before round 2, each call being made only after the one before   *)
(* it has returned; a run makes at most two model calls and one weather    *)
(* call, and nothing after a call that failed.                             *)
C13_RoundsInOrder ==
    \A m \in Modes :
        LET t == Exchanges(m) IN
        /\ Len(t) <= 6
        /\ \A i \in 1..Len(t) :
            /\ t[i].what = ExchangeOrder[i]
            /\ (i % 2 = 1) => t[i].kind = "call"
            /\ (i % 2 = 0) => t[i].kind \in {"return", "raise"}
            /\ t[i].kind = "raise" => i = Len(t)
        /\ Len(calls[m]) = Len(SelectSeq(t, LAMBDA e : e.kind = "call"))

C13_Witness ==
    /\ BothDone
    /\ \A m \in Modes :
        /\ Len(Exchanges(m)) = 6
        /\ Exchanges(m)[4].kind = "return"
        /\ Exchanges(m)[6].kind = "return"

\* the conversation starts with the system instruction and holds no other
\* system-role entry
OneSystemTurn(msgs) ==
    /\ msgs[1] = Msg("system", Str(SYSTEM_PROMPT))
    /\ \A i \in 2..Len(msgs) : msgs[i].role # "system"

(* C14: whatever the history, also one with system-role turns, every       *)
(* conversation sent to the model capability (round 1 and round 2) starts  *)
(* with the fixed system instruction and holds exactly one system-role     *)
(* entry.                                                                  *)
C14_OneSystemInstruction ==
    \A m \in Modes :
        \A i \in 1..Len(calls[m]) :
            calls[m][i].target = "llm" => OneSystemTurn(calls[m][i].messages)

C14_Witness ==
    /\ \E i \in 1..Len(history) : history[i].role = "system"
    /\ Len(calls["collect"]) = 3
    /\ OneSystemTurn(calls["collect"][1].messages)
    /\ OneSystemTurn(calls["collect"][3].messages)

\* the places of the history turns that are not system turns
NonSystem == {i \in 1..Len(history) : history[i].role # "system"}

(* C15: the built conversation is the system instruction, then every       *)
(* non-system history turn in its original order with role and content     *)
(* unchanged, then the new user message; its length is 2 plus the number   *)
(* of non-system history turns.                                            *)
C15_BuiltConversation ==
    pc["collect"] = "built" =>
        LET msgs == messages["collect"] IN
        /\ Len(msgs) = 2 + Cardinality(NonSystem)
        /\ msgs[1] = Msg("system", Str(SYSTEM_PROMPT))
        /\ msgs[Len(msgs)] = Msg("user", Str(message))
        /\ \A i \in NonSystem :
              msgs[1 + Cardinality({j \in NonSystem : j <= i})] =
                  Msg(history[i].role, Str(history[i].content))

C15_Witness ==
    /\ pc["collect"] = "built"
    /\ Len(history) = 3
    /\ history[1].role = "user" /\ history[1].content = <<"Hi">>
    /\ history[2].role = "system"
    /\ history[3].role = "assistant" /\ history[3].content = <<"Bye">>
    /\ Len(messages["collect"]) = 4

\* the request was refused as invalid and run_agent was not called
RefusedBeforeOrchestrator ==
    /\ pc["collect"] = "idle"
    /\ calls["collect"] = <<>>
    /\ response \in {NoResponse, ErrorResponse(400, MSG_INVALID_BODY)}

(* C16: a POST /chat request whose history holds a turn with a role other  *)
(* than "user" or "assistant" is answered with the 400 error envelope and  *)
(* the orchestrator is not invoked.                                        *)
C16_SystemTurnRefused ==
    (/\ request.route = ROUTE_CHAT
     /\ \E i \in 1..Len(request.history) :
            request.history[i].role \notin {"user", "assistant"})
        => RefusedBeforeOrchestrator

C16_Witness ==
    /\ request.route = ROUTE_CHAT
    /\ request.message = Str(<<"Weather", " ", "in", " ", "Austin?">>)
    /\ chat_client = "client"
    /\ Len(request.history) = 1
    /\ request.history[1].role = "system"
    /\ response = ErrorResponse(400, MSG_INVALID_BODY)

(* C17: POST /chat/stream takes the body of POST /chat and delivers the    *)
(* event sequence of run_agent_stream, in order and ending with its        *)
(* terminal event.                                                         *)
C17_StreamEndpointDeliversEvents ==
    (/\ request.route = ROUTE_CHAT_STREAM
     /\ ValidChatRequest(request)
     /\ chat_client = "client"
     /\ response # NoResponse)
        => /\ response.status = 200
           /\ response.events # <<>>
           /\ response.events = events
           /\ Terminal(response.events[Len(response.events)])

\* the status message the k-th external call of the progressive run follows
StatusBeforeCall(k) ==
    CASE k = 1 -> MSG_ANALYZING
      [] k = 2 -> MsgFetching(location["stream"])
      [] OTHER -> MSG_GENERATING
EventTypes == [i \in 1..Len(events) |-> events[i].type]

(* C18: progressive mode yields a status event right before each external  *)
(* call - analyzing before round 1, fetching weather for the location      *)
(* before the lookup, generating before round 2 - and a status event is    *)
(* always followed by a call; a successful tool-path run emits             *)
(* [status, status, status, result], a successful no-tool run              *)
(* [status, result].                                                       *)
C18_StatusBeforeEachCall ==
    LET t == trace["stream"] IN
    /\ \A i \in 1..Len(t) :
        /\ t[i].kind = "call" =>
            /\ i > 1
            /\ t[i - 1] = YieldEntry(Status(StatusBeforeCall(
                    Len(SelectSeq(SubSeq(t, 1, i), LAMBDA e : e.kind = "call")))))
        /\ (t[i].kind = "yield" /\ t[i].what = "status") =>
            (i < Len(t) /\ t[i + 1].kind = "call")
    /\ (Done("stream") /\ events # <<>> /\ LastEvent.type = "result") =>
            IF LastEvent.tool_used
            THEN EventTypes = <<"status", "status", "status", "result">>
            ELSE EventTypes = <<"status", "result">>

C18_Witness ==
    /\ Done("stream")
    /\ EventTypes = <<"status", "status", "status", "result">>
    /\ events[2].message = "Fetching weather data for Austin..."
    /\ Len(SelectSeq(trace["stream"], LAMBDA e : e.kind = "call")) = 3

(* C19: a POST /chat request with a missing or empty `message` is answered *)
(* with status 400 and {"error": "Invalid request body."} and never        *)
(* reaches the orchestrator: no model call and no weather call.            *)
C19_EmptyMessageRefused ==
    (/\ request.route = ROUTE_CHAT
     /\ (request.message.none \/ request.message.text = <<>>))
        => RefusedBeforeOrchestrator

C19_Witness ==
    /\ request.route = ROUTE_CHAT
    /\ request.message = Str(<<>>)
    /\ request.history = <<>>
    /\ chat_client = "client"
    /\ response = ErrorResponse(400, MSG_INVALID_BODY)

(* C20: POST /chat answers a returned (reply, toolUsed) with 200 and that  *)
(* reply and tool_used, an AgentError with 500 and the error's own text,   *)
(* and any other exception with 500 and the fixed body                     *)
(* {"error": "An unexpected error occurred."}.                             *)
C20_ChatOutcomeTranslation ==
    (request.route = ROUTE_CHAT /\ Done("collect") /\ response # NoResponse) =>
        LET out == outcome["collect"] IN
        /\ out.kind = "return" =>
                (/\ response.status = 200
                 /\ response.kind = "chat"
                 /\ response.reply = out.reply
                 /\ response.tool_used = out.tool_used)
        /\ out = Raise(MODEL_UNAVAILABLE) =>
                response = ErrorResponse(500, "model unavailable")
        /\ out = Raise(EMPTY_CONTENT) =>
                response = ErrorResponse(500, "LLM returned empty content")
        /\ (out.kind = "raise" /\ out.exc \notin AgentErrors) =>
                response = ErrorResponse(500, "An unexpected error occurred.")

C20_Witness ==
    /\ request.route = ROUTE_CHAT
    /\ outcome["collect"] = Raise("JSONDecodeError")
    /\ response = ErrorResponse(500, "An unexpected error occurred.")

\* the weather lookup of run m has come back
LookupDone(m) == Len(calls[m]) >= 2 /\ pc[m] # "weather" /\ "wx" \in chosen

\* the provider's `error` field of an error body, or the generic fallback
ProviderDetail(body) ==
    IF json_loads(body).ok /\ HasKey(json_loads(body), "error")
    THEN GetKey(json_loads(body), "error")
    ELSE JStr("Unknown error from weather service.")

(* C21: the Weather Lookup Client gives, for status 200, the body text     *)
(* unchanged; for 404, {"error": "Location '<location>' was not found."};  *)
(* for any other status, {"error": d} with d the provider's `error` field  *)
(* or the generic fallback; for a timeout, {"error": "Weather service      *)
(* timed out."}; for a connection error, {"error": "Weather service is     *)
(* unreachable."}.                                                         *)
C21_LookupResultMapping ==
    \A m \in Modes :
        LookupDone(m) =>
            /\ result[m].exc = ""
            /\ result[m].text =
                CASE env.wx.kind = "timeout" ->
                        "{\"error\": \"Weather service timed out.\"}"
                  [] env.wx.kind = "connect_error" ->
                        "{\"error\": \"Weather service is unreachable.\"}"
                  [] env.wx.status = 200 -> env.wx.body
                  [] env.wx.status = 404 ->
                        "{\"error\": \"Location '" \o location[m]
                            \o "' was not found.\"}"
                  [] OTHER ->
                        "{\"error\": "
                            \o json_dumps_scalar(ProviderDetail(env.wx.body)) \o "}"

\* what run r does alone with its own inputs and its own external answers
SoloConversation1(r) == build_messages(history[r], message[r])
SoloLookup(r) ==
    execute_get_current_weather(
        parse_tool_arguments(env[r].r1.tool_calls.list[1].arguments).location,
        env[r].wx)
SoloConversation2(r) ==
    SoloConversation1(r)
        \o <<AssistantMsg(env[r].r1),
             ToolMsg(SoloLookup(r).text, env[r].r1.tool_calls.list[1].id)>>
SoloOutcome(r) ==
    LET st1 == run_agent_round1(env[r].r1) IN
    IF st1.next = "done" THEN st1.outcome
    ELSE IF SoloLookup(r).exc # "" THEN Raise(SoloLookup(r).exc)
    ELSE run_agent_round2(env[r].r2).outcome

(* C22: concurrent runs are independent: under every interleaving of their *)
(* suspension points each run sends in round 1 and in round 2 the          *)
(* conversation it would send alone, and ends with the outcome it would    *)
(* have alone, for its own inputs and its own external answers; the shared *)
(* chat client handle stays as it was.                                     *)
C22_RunsIndependent ==
    /\ chat_client = "client"
    /\ \A r \in Runs :
        /\ Len(calls[r]) >= 1 => calls[r][1] = LLMCall(SoloConversation1(r), TRUE)
        /\ Len(calls[r]) >= 3 => calls[r][3] = LLMCall(SoloConversation2(r), FALSE)
        /\ pc[r] = "done" => outcome[r] = SoloOutcome(r)

C22_Witness ==
    /\ message[1] # message[2]
    /\ location[1] = "Austin" /\ location[2] = "Atlantis"
    /\ pc[2] = "round2"
    /\ pc[1] = "done"
    /\ outcome[1] = Return(<<"Sunny">>, TRUE)

(* C23: the chat client handle is created once, by the startup half of the *)
(* lifespan and before any request is handled (or not at all when its      *)
(* creation fails); no request replaces it; it is closed exactly once, by  *)
(* the shutdown half, when it was created, and never when it was not.      *)
C23_ClientCreatedOnceClosedOnce ==
    /\ lifespan.created <= 1
    /\ lifespan.phase = "boot" =>
            /\ lifespan.created = 0
            /\ lifespan.served = 0
            /\ request = NoRequest
            /\ chat_client = "none"
    /\ lifespan.phase # "boot" =>
            chat_client = (IF lifespan.created = 1 THEN "client" ELSE "none")
    /\ lifespan.closed = (IF lifespan.phase = "stopped" THEN lifespan.created ELSE 0)

C23_Witness ==
    /\ lifespan.phase = "stopped"
    /\ lifespan.served = 2
    /\ lifespan.created = 1
    /\ lifespan.closed = 1
    /\ chat_client = "client"

\* the normalization server has answered the lookup of the run
ServerAnswered == mcp.phase = "responded"
TenFields ==
    {"location", "temperature", "feels_like", "humidity", "wind_speed",
     "wind_direction", "weather_description", "uv_index", "visibility",
     "cloud_cover"}
\* the value of a field of a WeatherResponse as a JSON scalar
FieldValue(w, k) ==
    CASE k = "location" -> JStr(w.location)
      [] k = "temperature" -> JInt(ToString(w.temperature))
      [] k = "feels_like" -> JInt(ToString(w.feels_like))
      [] k = "humidity" -> JInt(ToString(w.humidity))
      [] k = "wind_speed" -> JInt(ToString(w.wind_speed))
      [] k = "wind_direction" -> JStr(w.wind_direction)
      [] k = "weather_description" -> JStr(w.weather_description)
      [] k = "uv_index" -> JInt(ToString(w.uv_index))
      [] k = "visibility" -> JInt(ToString(w.visibility))
      [] OTHER -> JInt(ToString(w.cloud_cover))
\* the tool-result turn of the conversation sent in round 2
ToolTurn == calls["collect"][3].messages[Len(calls["collect"][3].messages)]

(* C24: for a found location the tool-result text sent in round 2 is the   *)
(* success body of the normalization server unchanged, and parsing it      *)
(* gives an object with exactly the ten fields of the response, each with  *)
(* the value the server produced.                                          *)
C24_SuccessBodyRoundTrip ==
    (/\ Len(calls["collect"]) = 3
     /\ mcp.caller = "agent"
     /\ mcp.response.status = 200)
        => /\ ToolTurn.role = "tool"
           /\ ToolTurn.content = Str(<<mcp.response.body>>)
           /\ LET parsed == json_loads_tokens(ToolTurn.content.text[1]) IN
              /\ parsed.ok
              /\ parsed.t = "dict"
              /\ {f.k : f \in parsed.fields} = TenFields
              /\ \A k \in TenFields :
                    GetKey(parsed, k) = FieldValue(mcp.response.weather, k)

C24_Witness ==
    /\ Len(calls["collect"]) = 3
    /\ mcp.caller = "agent"
    /\ mcp.upstream = UpResponse(200, DATA_OSLO)
    /\ mcp.response.status = 200
    /\ GetKey(json_loads_tokens(ToolTurn.content.text[1]), "temperature") = JInt("-5")
    /\ GetKey(json_loads_tokens(ToolTurn.content.text[1]), "location") = JStr("Oslo")

\* the provider answered with a document flagged success = false
ProviderError ==
    /\ mcp.upstream.kind = "response"
    /\ mcp.upstream.status < 400
    /\ mcp.upstream.data.json
    /\ mcp.upstream.data.success = "false"
ErrorBody(msg) ==
    <<Punct("{"), JStr("error"), Punct(":"), JStr(msg), Punct("}")>>

(* C25: GET /weather answers, in this order of precedence: 400 for missing *)
(* or invalid parameters; 503 without an API key; 502 for an upstream      *)
(* timeout; 502 for an upstream HTTP error status; 404 with                *)
(* {"error": "Location not found."} for a provider error of code 601 or    *)
(* 615; 400 with the provider's message for any other provider error;      *)
(* otherwise 200.                                                          *)
C25_StatusPrecedence ==
    ServerAnswered =>
        LET st == mcp.response.status
            up == mcp.upstream
        IN CASE ~ValidWeatherQuery(mcp.query) -> st = 400
             [] ~mcp.api_key -> st = 503
             [] up.kind = "timeout" -> st = 502
             [] up.kind = "response" /\ up.status >= 400 -> st = 502
             [] ProviderError /\ ~up.data.error.code.none
                    /\ up.data.error.code.n \in {601, 615} ->
                    st = 404 /\ mcp.response.body = ErrorBody("Location not found.")
             [] ProviderError ->
                    /\ st = 400
                    /\ ~up.data.error.info.none =>
                            mcp.response.body = ErrorBody(up.data.error.info.s)
             [] OTHER -> st = 200

(* C26: every response of GET /weather with a status other than 200 has a  *)
(* JSON body of the shape {"error": <text>}, whatever the outcome of the   *)
(* upstream call and for every request-validation failure.                 *)
C26_ErrorEnvelope ==
    (ServerAnswered /\ mcp.response.status # 200) =>
        LET parsed == json_loads_tokens(mcp.response.body) IN
        /\ parsed.ok
        /\ parsed.t = "dict"
        /\ {f.k : f \in parsed.fields} = {"error"}
        /\ GetKey(parsed, "error").t = "str"

(* C27: GET /health of the agent server answers 200 with status "ok", the  *)
(* model name and the weather-server URL, whether or not the chat client   *)
(* was initialised, and calls neither the model nor the weather            *)
(* capability.                                                             *)
C27_HealthAlwaysOk ==
    (request.route = ROUTE_HEALTH /\ response # NoResponse) =>
        /\ response.status = 200
        /\ response.health.status = "ok"
        /\ response.health.model = MODEL_DEPLOYMENT_NAME
        /\ response.health.mcp_url = MCP_SERVER_URL
        /\ \A m \in Modes : calls[m] = <<>> /\ pc[m] = "idle"

C27_Witness ==
    /\ request.route = ROUTE_HEALTH
    /\ chat_client = "none"
    /\ response.status = 200
    /\ response.health = HealthBody("ok", "", "http://localhost:8000")


\* what the launcher does when every service comes up: each service is
\* started after the health check of the one before it, then the URL
LaunchPlan ==
    <<Started("mcp"), Waited("mcp", 30, "healthy"),
      Started("agent"), Waited("agent", 15, "healthy"),
      Started("frontend"), Waited("frontend", 30, "healthy"),
      PrintedUrl>>

\* C28: the launcher starts the MCP server, the agent server and the frontend
\* in that order, each after the health check of the one before returned 200
\* within its timeout (30 s, 15 s, 30 s), and prints the URL after the third;
\* a health check that does not succeed is the last thing the launcher does
\* before it shuts down: no later service is started
C28_StartInOrderAfterHealth ==
    /\ Len(launcher.log) <= Len(LaunchPlan)
    /\ \A i \in 1..Len(launcher.log) :
        \/ launcher.log[i] = LaunchPlan[i]
        \/ /\ i = Len(launcher.log)
           /\ launcher.log[i].kind = "wait"
           /\ launcher.log[i].outcome \in {"timeout", "interrupt"}
           /\ launcher.log[i] =
                [LaunchPlan[i] EXCEPT !.outcome = launcher.log[i].outcome]

\* the agent server's health check timed out after the MCP server came up,
\* and the launcher has exited without starting the frontend
C28_Witness ==
    /\ launcher.pc = "exited"
    /\ Len(launcher.log) = 4
    /\ launcher.log[4] = Waited("agent", 15, "timeout")
    /\ launcher.state["frontend"] = "not_started"

\* C29: when the launcher has exited, terminate() was called on every
\* subprocess it started and none of them is running, and every log file it
\* opened has been closed
C29_CleanupOnEveryExit ==
    launcher.pc = "exited" =>
        /\ \A svc \in DOMAIN launcher.state :
            launcher.state[svc] # "not_started" =>
                /\ svc \in launcher.terminated
                /\ launcher.state[svc] \in {"exited", "killed"}
        /\ Range(launcher.opened) \subseteq launcher.closed


\* round 1 of run m answered with two tool calls or more
SeveralToolCalls(m) ==
    /\ pc[m] \notin {"start", "round1"}
    /\ ~choice[m].raised
    /\ choice[m].finish_reason = "tool_calls"
    /\ ~choice[m].tool_calls.none
    /\ Len(choice[m].tool_calls.list) >= 2

WeatherCalls(m) == SelectSeq(calls[m], LAMBDA c : c.target = "weather")

\* C30: when round 1 carries several tool calls, the run goes by the first
\* alone: a first payload that parses leads to exactly one lookup, for the
\* first call's location, whatever the payloads of the other calls are (a
\* malformed one included); there is never a second lookup, and every
\* tool-result turn carries the first call's id
C30_OnlyFirstToolCallHonored ==
    \A m \in Modes :
        SeveralToolCalls(m) =>
            LET first == choice[m].tool_calls.list[1]
                p == parse_tool_arguments(first.arguments)
            IN  /\ Len(WeatherCalls(m)) <= 1
                /\ \A i \in 1..Len(WeatherCalls(m)) :
                    /\ p.exc = ""
                    /\ WeatherCalls(m)[i] = WeatherCall(p.location)
                /\ p.exc = "" => Len(WeatherCalls(m)) = 1
                /\ first.arguments = ARGS_AUSTIN =>
                    WeatherCalls(m) = <<WeatherCall("Austin")>>
                /\ \A i \in 1..Len(messages[m]) :
                    messages[m][i].role = "tool" =>
                        messages[m][i].tool_call_id = first.id

\* a run whose round 1 asked for Austin first and carried a second call with
\* a malformed payload has looked Austin up and sent round 2 with the tool
\* result tagged with the first call's id
C30_Witness ==
    \E m \in Modes :
        /\ SeveralToolCalls(m)
        /\ choice[m].tool_calls.list[1].arguments = ARGS_AUSTIN
        /\ choice[m].tool_calls.list[2].arguments = ARGS_BAD_JSON
        /\ WeatherCalls(m) = <<WeatherCall("Austin")>>
        /\ \E i \in 1..Len(messages[m]) :
            /\ messages[m][i].role = "tool"
            /\ messages[m][i].tool_call_id = choice[m].tool_calls.list[1].id


LLMCalls(m) == SelectSeq(calls[m], LAMBDA c : c.target = "llm")

\* C31: a run sends at most two conversations to the model; the first offers
\* the tools, the second does not and is the first conversation followed by
\* the model's round-1 message as it came and one tool turn whose content is
\* the lookup text and whose id is that of the tool call the run went by
C31_Round2Conversation ==
    \A m \in Modes :
        /\ Len(LLMCalls(m)) <= 2
        /\ Len(LLMCalls(m)) >= 1 => LLMCalls(m)[1].tools
        /\ Len(LLMCalls(m)) = 2 =>
            /\ ~LLMCalls(m)[2].tools
            /\ result[m].exc = ""
            /\ LLMCalls(m)[2].messages =
                LLMCalls(m)[1].messages \o
                <<[role |-> "assistant", content |-> choice[m].content,
                   tool_calls |-> choice[m].tool_calls, tool_call_id |-> ""],
                  [role |-> "tool", content |-> Str(<<result[m].text>>),
                   tool_calls |-> NoToolCalls,
                   tool_call_id |-> choice[m].tool_calls.list[1].id]>>

\* a collecting run has sent round 2 after it looked Austin up
C31_Witness ==
    /\ Len(LLMCalls("collect")) = 2
    /\ WeatherCalls("collect") = <<WeatherCall("Austin")>>
    /\ result["collect"].text = BODY_WEATHER
    /\ LLMCalls("collect")[2].messages[Len(LLMCalls("collect")[2].messages)].role = "tool"


\* the streamed response carried an event of the type
DeliveredEvent(http, type) ==
    /\ http.kind = "response"
    /\ http.status = 200
    /\ \E i \in 1..Len(http.lines) :
        http.lines[i].kind = "event" /\ http.lines[i].type = type

\* the exchange failed: no connection, a status other than 200, an error
\* event, or an exception while the response was read
FailedExchange(http) ==
    \/ http.kind = "connect_error"
    \/ http.status # 200
    \/ DeliveredEvent(http, "error")
    \/ \E i \in 1..Len(http.lines) : http.lines[i].kind = "non_object"

LastIsAssistant == ui.messages[Len(ui.messages)].role = "assistant"

\* C32: after an exchange the session's last message is an assistant message
\* exactly when the exchange delivered a result event and did not fail; the
\* user's message of the exchange is in the session either way, and every
\* assistant message comes right after a user message
C32_AssistantOnlyOnResult ==
    /\ Len(ui.log) >= 1 =>
        /\ LastIsAssistant <=>
            (DeliveredEvent(ui.last, "result") /\ ~FailedExchange(ui.last))
        /\ ui.messages[Len(ui.messages) - (IF LastIsAssistant THEN 1 ELSE 0)] =
                [role |-> "user", content |-> ui.log[Len(ui.log)].message,
                 tool_used |-> FALSE]
    /\ \A i \in 1..Len(ui.messages) :
        ui.messages[i].role = "assistant" =>
            i > 1 /\ ui.messages[i - 1].role = "user"

\* a failed first exchange left its user message alone in the session, and
\* the second exchange delivered a result that was appended after its own
C32_Witness ==
    /\ Len(ui.log) = 2
    /\ Len(ui.messages) = 3
    /\ ui.messages[1].role = "user"
    /\ ui.messages[2].role = "user"
    /\ ui.messages[3] =
        [role |-> "assistant", content |-> "Sunny in Austin.", tool_used |-> TRUE]
    /\ DeliveredEvent(ui.last, "result")


\* C36: the history sent with a request is the session's messages as the
\* earlier exchanges left them, in order, each reduced to its role and
\* content, every role being "user" or "assistant"; the prompt is sent as
\* `message`, is persisted as the next user message and is no turn of the
\* history sent with it
C36_HistoryIsEarlierMessages ==
    [][Len(ui'.log) = Len(ui.log) + 1 =>
        LET sent == ui'.log[Len(ui'.log)] IN
        /\ Len(sent.history) = Len(ui.messages)
        /\ \A i \in 1..Len(ui.messages) :
            /\ sent.history[i] =
                [role |-> ui.messages[i].role, content |-> ui.messages[i].content]
            /\ sent.history[i].role \in {"user", "assistant"}
            /\ ui'.messages[i] = ui.messages[i]
        /\ ui'.messages[Len(ui.messages) + 1] =
            [role |-> "user", content |-> sent.message, tool_used |-> FALSE]
    ]_vars

\* the second request of a session carried the first exchange's user message
\* and the assistant's reply as its history, and repeated the first prompt
C36_Witness ==
    /\ Len(ui.log) = 2
    /\ ui.log[2].message = ui.log[1].message
    /\ ui.log[2].history =
        <<[role |-> "user", content |-> ui.log[1].message],
          [role |-> "assistant", content |-> "Sunny in Austin."]>>


\* C33: while the server runs without a chat client, no run of the
\* orchestrator is started and no model or weather call is made, and a
\* POST /chat with a valid body is answered with 500 and
\* {"error": "Chat service not available."}
C33_NoClientNoOrchestrator ==
    (lifespan.phase = "serving" /\ chat_client = "none") =>
        /\ \A m \in Modes : pc[m] = "idle" /\ calls[m] = <<>> /\ trace[m] = <<>>
        /\ (/\ request # NoRequest
            /\ request.route = ROUTE_CHAT
            /\ ValidChatRequest(request)
            /\ response # NoResponse) =>
                /\ response.status = 500
                /\ response.kind = "error"
                /\ response.error = "Chat service not available."

\* the client's creation failed at startup and a valid POST /chat was
\* answered with the 500
C33_Witness ==
    /\ lifespan.phase = "serving"
    /\ lifespan.created = 0
    /\ chat_client = "none"
    /\ request # NoRequest
    /\ request.route = ROUTE_CHAT
    /\ ValidChatRequest(request)
    /\ response = ErrorResponse(500, MSG_NO_CLIENT)


\* the tool_used flags of the successful outcome of run m: of the returned
\* pair when collecting, of the result events when streaming
SuccessFlags(m) ==
    IF m = "collect"
    THEN (IF outcome[m].kind = "return" THEN {outcome[m].tool_used} ELSE {})
    ELSE {events[i].tool_used : i \in {j \in 1..Len(events) : events[j].type = "result"}}

\* C34: a run that ended successfully reports toolUsed true exactly when it
\* called the weather capability once and the model twice, and false exactly
\* when it called the weather capability never and the model once
C34_ToolUsedCountsCalls ==
    \A m \in Modes :
        Done(m) =>
            \A tool_used \in SuccessFlags(m) :
                /\ tool_used <=>
                    (Len(WeatherCalls(m)) = 1 /\ Len(LLMCalls(m)) = 2)
                /\ ~tool_used <=>
                    (Len(WeatherCalls(m)) = 0 /\ Len(LLMCalls(m)) = 1)

\* both modes ended successfully after one lookup and two model calls and
\* report the tool as used
C34_Witness ==
    /\ BothDone
    /\ SuccessFlags("collect") = {TRUE}
    /\ SuccessFlags("stream") = {TRUE}
    /\ \A m \in Modes : Len(WeatherCalls(m)) = 1 /\ Len(LLMCalls(m)) = 2


\* C35: no step of a run changes the history or the message it was given; a
\* step changes the message list of one run at most, and only by appending
\* to it after the list _build_messages made
C35_InputsUnchanged ==
    [][/\ history' = history
       /\ message' = message
       /\ \A m \in Modes :
            messages'[m] # messages[m] =>
                /\ \A o \in Modes \ {m} : messages'[o] = messages[o]
                /\ SubSeq(messages'[m], 1, Len(messages[m])) = messages[m]
                /\ SubSeq(messages'[m], 1, Len(build_messages(history, message)))
                        = build_messages(history, message)
    ]_vars

\* a collecting run given a history of one turn has ended after it appended
\* the tool-call message and the tool-result turn to its own list
C35_Witness ==
    /\ Len(history) = 1
    /\ Done("collect")
    /\ Len(messages["collect"]) = Len(build_messages(history, message)) + 2
    /\ messages["collect"][Len(messages["collect"])].role = "tool"

====
